---------------------------- MODULE Spec2Model ----------------------------
(***************************************************************************)
(* Verification model of the analytics derivation layer of dashboard.py:   *)
(*   - the media/companion merge of the Recent Messages view (tab1) and of *)
(*     the User Deep Dive view (tab2),                                     *)
(*   - the recovery-ladder attribution query,                              *)
(*   - the weekly cohort retention queries.                                *)
(* List positions are 1-based here (the code's iloc index plus one).       *)
(***************************************************************************)
EXTENDS Integers, Sequences, FiniteSets, TLC

VARIABLES
    view,                      \* which page runs the merge: "tab1" | "tab2"
    recent_messages,           \* the fetched rows (recent_messages / messages_df)
    pc,                        \* position of the page script: which loop runs
    i,                         \* loop index of the running loop
    skip_idx,                  \* skip_idx / skip_idx_dd
    transcript_for_audio,      \* media position -> companion position
    interpretation_for_image,
    description_for_sticker,
    rows_display,              \* rows_display / rows_history
    messages,                  \* table messages(user_id, waid, sender, sent_at)
    recovery_logs,             \* table recovery_logs(user_id, sent_at)
    user_activities_history,   \* table user_activities_history(user_id, completed_at)
    tick,                      \* the clock: index of the current instant
    start_date_sp,             \* argument of get_recovery_ladder_events
    phase,                     \* position of the row being rendered / of the resolver call
    decoder,                   \* which decoder renders the row
    raw_msg,                   \* the row's raw payload (messages.message)
    msg_type_val,              \* the row's stored type (messages.type)
    message_text,              \* the decoder's return value
    type_label,                \* the row's "Type" column
    resolver,                  \* which copy of the resolver is called
    tz_str,                    \* users.timezone, the resolver's argument
    user_tz,                   \* the resolver's return value
    formatter,                 \* which timestamp formatter runs
    timestamp,                 \* the timestamp to format
    time_shown,                \* the formatter's return value
    GoogleTranslator,          \* TRUE iff deep_translator could be imported
    translations,              \* st.session_state: one translation cache per view
    remote_calls,              \* remote translate() calls so far, per view and text
    remote_outcome,            \* how the remote call of the last translate_to_english ended
    translate_arg,             \* view and text of the last translate_to_english
    translated,                \* the return value of the last translate_to_english
    cache_resource,            \* st.cache_resource: the cached get_connection() result
    connect_calls,             \* executions of get_connection's body so far
    df,                        \* the return value of the last run_query
    query_outcome,             \* how the last run_query ended
    cache_data,                \* st.cache_data: the cached get_pending_reply_detail() result
    pending_df,                \* the return value of the last get_pending_reply_detail()
    pending_call               \* how the call answered, if the last step was the call

mvars == <<view, recent_messages, pc, i, skip_idx, transcript_for_audio,
           interpretation_for_image, description_for_sticker, rows_display>>

dvars == <<messages, recovery_logs, user_activities_history, tick, start_date_sp>>

xvars == <<phase, decoder, raw_msg, msg_type_val, message_text, type_label,
           resolver, tz_str, user_tz>>

fvars == <<formatter, timestamp, time_shown>>

tvars == <<GoogleTranslator, translations, remote_calls, remote_outcome, translate_arg, translated>>

qvars == <<cache_resource, connect_calls, df, query_outcome,
           cache_data, pending_df, pending_call>>

ovars == <<fvars, tvars, qvars>>

vars == <<mvars, dvars, xvars, ovars>>

(* No timestamp is being formatted *)
NoFormatter ==
    /\ formatter = "none"
    /\ timestamp = <<>>
    /\ time_shown = <<>>

(* No translation and no query has run in the session *)
NoSession ==
    /\ GoogleTranslator = FALSE
    /\ translations = <<>>
    /\ remote_calls = <<>>
    /\ remote_outcome = "none"
    /\ translate_arg = <<>>
    /\ translated = <<>>
    /\ cache_resource = "empty"
    /\ connect_calls = 0
    /\ df = "none"
    /\ query_outcome = "none"
    /\ cache_data = <<>>
    /\ pending_df = {}
    /\ pending_call = "none"

(* No row is being rendered and no timezone is being resolved *)
Idle ==
    /\ phase = "idle"
    /\ decoder = "none"
    /\ raw_msg = <<>>
    /\ msg_type_val = ""
    /\ message_text = <<>>
    /\ type_label = ""
    /\ tz_str = <<>>
    /\ user_tz = <<>>
    /\ resolver = "none"
    /\ NoFormatter
    /\ NoSession

-----------------------------------------------------------------------------
(* Bounds of the merge model *)
MaxLen == 3

(* The pairing window of the merge loops, in seconds *)
MergeWindow == 120

(* SQL NULL: no instant and no number in the model is negative one *)
NULL == -1

Senders == {"user", "companion"}

(* Adjacent rows of the fetched list are this many seconds apart: on the   *)
(* window's edge and just outside it.                                      *)
Gaps == {MergeWindow, MergeWindow + 1}

(* Decoded texts of a row (the result of extract_message_text on it).      *)
Texts == {"", "ok"}

(* msg_type and the marker substrings found in the raw payload *)
Shapes ==
    { [msg_type |-> "text",    raw |-> {}],
      [msg_type |-> "audio",   raw |-> {}],
      [msg_type |-> "image",   raw |-> {}],
      [msg_type |-> "image",   raw |-> {"\"sticker\"", "image/webp"}],
      [msg_type |-> "image",   raw |-> {"audio/ogg", "audio"}] }

-----------------------------------------------------------------------------
(* Classification predicates, tab1 *)
is_audio_message(m) ==
    \/ m.msg_type = "audio"
    \/ "audio/ogg" \in m.raw
    \/ ("opus" \in m.raw /\ "audio" \in m.raw)

is_sticker_message(m) ==
    \/ m.msg_type = "sticker"
    \/ ("\"sticker\"" \in m.raw /\ "image/webp" \in m.raw)

is_image_message(m) ==
    /\ ~is_sticker_message(m)
    /\ \/ m.msg_type \in {"image", "photo"}
       \/ ("\"image\"" \in m.raw /\ "image/jpeg" \in m.raw)

(* Classification predicates, tab2 *)
is_audio_msg(m) ==
    \/ m.msg_type = "audio"
    \/ "audio/ogg" \in m.raw
    \/ ("opus" \in m.raw /\ "audio" \in m.raw)

is_sticker_msg(m) ==
    \/ m.msg_type = "sticker"
    \/ ("\"sticker\"" \in m.raw /\ "image/webp" \in m.raw)

is_image_msg(m) ==
    /\ ~is_sticker_msg(m)
    /\ \/ m.msg_type \in {"image", "photo"}
       \/ ("\"image\"" \in m.raw /\ "image/jpeg" \in m.raw)

Kinds == {"audio", "image", "sticker"}

IsKind(v, kind, m) ==
    CASE kind = "audio"   -> IF v = "tab1" THEN is_audio_message(m) ELSE is_audio_msg(m)
      [] kind = "image"   -> IF v = "tab1" THEN is_image_message(m) ELSE is_image_msg(m)
      [] kind = "sticker" -> IF v = "tab1" THEN is_sticker_message(m) ELSE is_sticker_msg(m)

(* The text a row decodes to: extract_message_text(row raw_message) *)
decoded_text(m) == m.text

Abs(x) == IF x < 0 THEN -x ELSE x

(* `a or b` on strings: the first if it is non-empty *)
OrElse(a, b) == IF a # "" THEN a ELSE b

-----------------------------------------------------------------------------
(* The candidate check of the merge loops *)

(* Faulty variant: the row after the media is tried first *)
candidate_order_after_first(idx) == <<idx + 1, idx - 1>>

(* for candidate_idx in [i - 1, i + 1] *)
candidate_order_tab1(idx) == <<idx - 1, idx + 1>>

candidate_order_tab2(idx) == <<idx - 1, idx + 1>>

CandidateOrder(v, idx) ==
    IF v = "tab1" THEN candidate_order_tab1(idx) ELSE candidate_order_tab2(idx)

(* candidate_idx < 0 or candidate_idx >= len(...): continue *)
InRange(msgs, c) == c >= 1 /\ c <= Len(msgs)

(* candidate_idx in skip_idx: continue *)
NotSkipped(skip, c) == c \notin skip

(* other["sender"] != row["sender"] or is_<kind>(other): continue *)
SenderAndKindOk(v, kind, row, other) ==
    /\ other.sender = row.sender
    /\ ~IsKind(v, kind, other)

(* Faulty variant: a window one second too wide *)
WithinWindow_wider(ts_cur, ts_other) == Abs(ts_cur - ts_other) <= MergeWindow + 1

(* abs((ts_cur - ts_other).total_seconds()) <= 120 *)
WithinWindow(ts_cur, ts_other) == Abs(ts_cur - ts_other) <= MergeWindow

CandidateOk(v, kind, msgs, skip, idx, c) ==
    /\ InRange(msgs, c)
    /\ NotSkipped(skip, c)
    /\ SenderAndKindOk(v, kind, msgs[idx], msgs[c])
    /\ WithinWindow(msgs[idx].timestamp, msgs[c].timestamp)

(* The first candidate of the order that passes, 0 when none does (break   *)
(* on the first hit).                                                      *)
FirstCandidate(v, kind, msgs, skip, idx) ==
    LET cs == CandidateOrder(v, idx)
    IN  IF CandidateOk(v, kind, msgs, skip, idx, cs[1]) THEN cs[1]
        ELSE IF CandidateOk(v, kind, msgs, skip, idx, cs[2]) THEN cs[2]
        ELSE 0

(* if not is_<kind>(row): continue  -- the only test a row must pass to    *)
(* start looking for a companion.                                          *)
Initiates(v, kind, msgs, skip, idx) == IsKind(v, kind, msgs[idx])

(* The companion one loop iteration records for row idx, 0 for none *)
PairingOf(v, kind, msgs, skip, idx) ==
    IF Initiates(v, kind, msgs, skip, idx)
    THEN FirstCandidate(v, kind, msgs, skip, idx)
    ELSE 0

(* Faulty variant: the sticker loop runs before the image loop *)
NextPhase_stickerBeforeImage(p) ==
    CASE p = "audio"   -> "sticker"
      [] p = "sticker" -> "image"
      [] p = "image"   -> "rows"
      [] p = "rows"    -> "done"

(* The loops run one after the other: audio, image, sticker, then the rows *)
NextPhase(p) ==
    CASE p = "audio"   -> "image"
      [] p = "image"   -> "sticker"
      [] p = "sticker" -> "rows"
      [] p = "rows"    -> "done"

Advance ==
    IF i < Len(recent_messages)
    THEN /\ i' = i + 1
         /\ pc' = pc
    ELSE /\ i' = 1
         /\ pc' = NextPhase(pc)

(* One iteration of the audio + transcript loop *)
AudioStep ==
    /\ pc = "audio"
    /\ LET c == PairingOf(view, "audio", recent_messages, skip_idx, i)
       IN  IF c # 0
           THEN /\ transcript_for_audio' = (i :> c) @@ transcript_for_audio
                /\ skip_idx' = skip_idx \cup {c}
           ELSE UNCHANGED <<transcript_for_audio, skip_idx>>
    /\ Advance
    /\ UNCHANGED <<view, recent_messages, interpretation_for_image,
                   description_for_sticker, rows_display>>
    /\ UNCHANGED <<dvars, xvars, ovars>>

(* One iteration of the image + description loop *)
ImageStep ==
    /\ pc = "image"
    /\ LET c == PairingOf(view, "image", recent_messages, skip_idx, i)
       IN  IF c # 0
           THEN /\ interpretation_for_image' = (i :> c) @@ interpretation_for_image
                /\ skip_idx' = skip_idx \cup {c}
           ELSE UNCHANGED <<interpretation_for_image, skip_idx>>
    /\ Advance
    /\ UNCHANGED <<view, recent_messages, transcript_for_audio,
                   description_for_sticker, rows_display>>
    /\ UNCHANGED <<dvars, xvars, ovars>>

(* One iteration of the sticker + description loop *)
StickerStep ==
    /\ pc = "sticker"
    /\ LET c == PairingOf(view, "sticker", recent_messages, skip_idx, i)
       IN  IF c # 0
           THEN /\ description_for_sticker' = (i :> c) @@ description_for_sticker
                /\ skip_idx' = skip_idx \cup {c}
           ELSE UNCHANGED <<description_for_sticker, skip_idx>>
    /\ Advance
    /\ UNCHANGED <<view, recent_messages, transcript_for_audio,
                   interpretation_for_image, rows_display>>
    /\ UNCHANGED <<dvars, xvars, ovars>>

(* get_display_text / get_msg_display_text *)
get_display_text(v, msgs, skip, tfa, ifi, dfs, idx) ==
    IF idx \in skip THEN ""
    ELSE IF IsKind(v, "audio", msgs[idx]) THEN
        IF idx \in DOMAIN tfa
        THEN OrElse(decoded_text(msgs[tfa[idx]]), "[Audio]")
        ELSE "[Audio]"
    ELSE IF IsKind(v, "sticker", msgs[idx]) THEN
        IF idx \in DOMAIN dfs
        THEN OrElse(decoded_text(msgs[dfs[idx]]), "[Sticker]")
        ELSE "[Sticker]"
    ELSE IF IsKind(v, "image", msgs[idx]) THEN
        IF idx \in DOMAIN ifi
        THEN OrElse(decoded_text(msgs[ifi[idx]]), "[Image]")
        ELSE "[Image]"
    ELSE decoded_text(msgs[idx])

(* One iteration of the loop that builds rows_display / rows_history *)
RowStep ==
    /\ pc = "rows"
    /\ IF i \in skip_idx
       THEN UNCHANGED rows_display
       ELSE rows_display' = Append(rows_display,
                [idx |-> i,
                 Message |-> get_display_text(view, recent_messages, skip_idx,
                                 transcript_for_audio, interpretation_for_image,
                                 description_for_sticker, i)])
    /\ Advance
    /\ UNCHANGED <<view, recent_messages, skip_idx, transcript_for_audio,
                   interpretation_for_image, description_for_sticker>>
    /\ UNCHANGED <<dvars, xvars, ovars>>

-----------------------------------------------------------------------------
(* The fetched list: ORDER BY sent_at DESC, sent_at IS NOT NULL, not empty *)
RECURSIVE SumGaps(_, _, _)
SumGaps(g, k, n) == IF k >= n THEN 0 ELSE g[k] + SumGaps(g, k + 1, n)

MkMessages(n, b, g) ==
    [k \in 1..n |->
        [sender    |-> b[k][1],
         msg_type  |-> b[k][2].msg_type,
         raw       |-> b[k][2].raw,
         text      |-> b[k][3],
         timestamp |-> SumGaps(g, k, n)]]

InitMerge ==
    /\ view \in {"tab1", "tab2"}
    /\ \E n \in 1..MaxLen :
         \E b \in [1..n -> Senders \X Shapes \X Texts], g \in [1..(n - 1) -> Gaps] :
            recent_messages = MkMessages(n, b, g)
    /\ pc = "audio"
    /\ i = 1
    /\ skip_idx = {}
    /\ transcript_for_audio = <<>>
    /\ interpretation_for_image = <<>>
    /\ description_for_sticker = <<>>
    /\ rows_display = <<>>
    /\ messages = {}
    /\ recovery_logs = {}
    /\ user_activities_history = {}
    /\ tick = 0
    /\ start_date_sp = 0
    /\ Idle

NextMerge == AudioStep \/ ImageStep \/ StickerStep \/ RowStep

SpecMerge == InitMerge /\ [][NextMerge]_vars

-----------------------------------------------------------------------------
(***************************************************************************)
(* The data store.  Timestamps are UTC instants counted in minutes.        *)
(***************************************************************************)

(* Bounds of the recovery model *)
MaxTick == 5
MaxEvents == 3

(* users(id, waid): rows 1 and 2 are the same person, onboarded twice *)
UserIds == {1, 2, 3}

UserWaid(u) == CASE u = 1 -> "wa" [] u = 2 -> "wa" [] u = 3 -> "wb"

(* load_internal_users(): none of the modelled users is internal *)
internal_waids == {"internal"}

(* The instants of the recovery model: each 12-hour mark and the minute after it *)
TickTime(k) == 720 * (k \div 2) + (k % 2)

Now == TickTime(tick)

NumEvents ==
    Cardinality(messages) + Cardinality(recovery_logs)
        + Cardinality(user_activities_history)

(* A recovery template is sent to a user row (at most one per instant) *)
SendTemplate(u) ==
    /\ NumEvents < MaxEvents
    /\ ~\E r \in recovery_logs : r.user_id = u /\ r.sent_at = Now
    /\ recovery_logs' = recovery_logs \cup {[user_id |-> u, sent_at |-> Now]}
    /\ UNCHANGED <<messages, user_activities_history, tick, start_date_sp>>
    /\ UNCHANGED <<mvars, xvars, ovars>>

(* A message is stored: from the user, or from the companion to the user *)
StoreMessage(u, sender) ==
    /\ NumEvents < MaxEvents
    /\ messages' = messages \cup
          {[user_id |-> u, waid |-> UserWaid(u), sender |-> sender, sent_at |-> Now]}
    /\ UNCHANGED <<recovery_logs, user_activities_history, tick, start_date_sp>>
    /\ UNCHANGED <<mvars, xvars, ovars>>

(* A user completes an activity *)
CompleteActivity(u) ==
    /\ NumEvents < MaxEvents
    /\ user_activities_history' = user_activities_history \cup
          {[user_id |-> u, completed_at |-> Now]}
    /\ UNCHANGED <<messages, recovery_logs, tick, start_date_sp>>
    /\ UNCHANGED <<mvars, xvars, ovars>>

(* Time passes *)
Tick ==
    /\ tick < MaxTick
    /\ tick' = tick + 1
    /\ UNCHANGED <<messages, recovery_logs, user_activities_history, start_date_sp>>
    /\ UNCHANGED <<mvars, xvars, ovars>>

-----------------------------------------------------------------------------
(* get_recovery_ladder_events *)

SetMin(S) == CHOOSE x \in S : \A y \in S : x <= y

RECURSIVE SortAsc(_)
SortAsc(S) == IF S = {} THEN <<>> ELSE <<SetMin(S)>> \o SortAsc(S \ {SetMin(S)})

(* LEAST(a, b) *)
LEAST(a, b) == IF a <= b THEN a ELSE b

(* COALESCE(a, b) *)
COALESCE(a, b) == IF a # NULL THEN a ELSE b

HOURS_12 == 720
HOURS_24 == 1440
YEARS_100 == 52560000

(* WHERE of template_sends: the start date and the internal users *)
TemplateSendKept(r) ==
    /\ r.sent_at >= start_date_sp
    /\ UserWaid(r.user_id) \notin (internal_waids \ {""})

(* LEAD(r.sent_at) OVER (PARTITION BY r.user_id ORDER BY r.sent_at) *)
LeadPartition(r, kept) == {x \in kept : x.user_id = r.user_id}

LEAD(r, kept) ==
    LET ordered == SortAsc({x.sent_at : x \in LeadPartition(r, kept)})
        pos == CHOOSE k \in 1..Len(ordered) : ordered[k] = r.sent_at
    IN  IF pos < Len(ordered) THEN ordered[pos + 1] ELSE NULL

template_sends ==
    LET kept == {r \in recovery_logs : TemplateSendKept(r)}
    IN  { [user_id |-> r.user_id,
           waid |-> UserWaid(r.user_id),
           template_sent_at_utc |-> r.sent_at,
           next_template_at_utc |-> LEAD(r, kept)] : r \in kept }

(* Faulty variant: a message at the instant of the next send still counts *)
IsReply_upToNextInclusive(ts, m) ==
    /\ m.sender = "user"
    /\ (m.user_id = ts.user_id \/ m.waid = ts.waid)
    /\ m.sent_at > ts.template_sent_at_utc
    /\ (ts.next_template_at_utc = NULL \/ m.sent_at <= ts.next_template_at_utc)

(* WHERE of the LATERAL reply subquery *)
IsReply(ts, m) ==
    /\ m.sender = "user"
    /\ (m.user_id = ts.user_id \/ m.waid = ts.waid)
    /\ m.sent_at > ts.template_sent_at_utc
    /\ (ts.next_template_at_utc = NULL \/ m.sent_at < ts.next_template_at_utc)

(* MIN(m.sent_at), NULL over no rows *)
first_reply_at_utc(ts) ==
    LET S == {m.sent_at : m \in {x \in messages : IsReply(ts, x)}}
    IN  IF S = {} THEN NULL ELSE SetMin(S)

(* EXTRACT(EPOCH FROM (a - b)): seconds *)
EPOCH(a, b) == (a - b) * 60

response_minutes(ts) ==
    IF first_reply_at_utc(ts) # NULL
    THEN EPOCH(first_reply_at_utc(ts), ts.template_sent_at_utc) \div 60
    ELSE NULL

(* Faulty variant: the next send does not cut the horizon *)
ActivityWithin_ignoringNextSend(re, uah, horizon) ==
    /\ uah.user_id = re.user_id
    /\ uah.completed_at > re.template_sent_at_utc
    /\ uah.completed_at <= re.template_sent_at_utc + horizon

(* The EXISTS subqueries of conversion_flags *)
ActivityWithin(re, uah, horizon) ==
    /\ uah.user_id = re.user_id
    /\ uah.completed_at > re.template_sent_at_utc
    /\ uah.completed_at <= LEAST(re.template_sent_at_utc + horizon,
                                 COALESCE(re.next_template_at_utc,
                                          re.template_sent_at_utc + YEARS_100))

conversion_flags ==
    { [user_id |-> ts.user_id,
       waid |-> ts.waid,
       template_sent_at_utc |-> ts.template_sent_at_utc,
       next_template_at_utc |-> ts.next_template_at_utc,
       first_reply_at_utc |-> first_reply_at_utc(ts),
       replied_before_next_template |-> (first_reply_at_utc(ts) # NULL),
       activity_12h |-> \E uah \in user_activities_history : ActivityWithin(ts, uah, HOURS_12),
       activity_24h |-> \E uah \in user_activities_history : ActivityWithin(ts, uah, HOURS_24),
       response_minutes |-> response_minutes(ts)] : ts \in template_sends }

get_recovery_ladder_events == conversion_flags

InitRecovery ==
    /\ messages = {}
    /\ recovery_logs = {}
    /\ user_activities_history = {}
    /\ tick = 0
    /\ start_date_sp \in {TickTime(0), TickTime(1)}
    /\ view = "tab1"
    /\ recent_messages = <<>>
    /\ pc = "done"
    /\ i = 1
    /\ skip_idx = {}
    /\ transcript_for_audio = <<>>
    /\ interpretation_for_image = <<>>
    /\ description_for_sticker = <<>>
    /\ rows_display = <<>>
    /\ Idle

NextRecovery ==
    \/ \E u \in UserIds : SendTemplate(u)
    \/ \E u \in UserIds, sender \in Senders : StoreMessage(u, sender)
    \/ \E u \in UserIds : CompleteActivity(u)
    \/ Tick

SpecRecovery == InitRecovery /\ [][NextRecovery]_vars

-----------------------------------------------------------------------------
(***************************************************************************)
(* The cohort retention queries of tab3.  Dates are day numbers; day 0 is  *)
(* a Monday.                                                               *)
(***************************************************************************)

(* Bound of the retention model: the clock runs over the days RetDay(0..MaxDayTick) *)
MaxDayTick == 5

(* The days of the retention model: the first four days of a week, then    *)
(* from the next Monday on.                                                *)
RetDay(k) == IF k <= 3 THEN k ELSE k + 3

MINUTES_PER_DAY == 1440

(* America/Sao_Paulo is UTC-03:00 *)
SAO_PAULO_OFFSET == 180

(* Times of day at which a message is stored: 01:00 UTC, which is still    *)
(* the previous day in Sao Paulo, and 15:00 UTC.                           *)
TimesOfDay == {60, 900}

(* A message is stored on the current day *)
StoreMessageOnDay(u, sender, h) ==
    /\ NumEvents < MaxEvents
    /\ messages' = messages \cup
          {[user_id |-> u, waid |-> UserWaid(u), sender |-> sender,
            sent_at |-> MINUTES_PER_DAY * RetDay(tick) + h]}
    /\ UNCHANGED <<recovery_logs, user_activities_history, tick, start_date_sp>>
    /\ UNCHANGED <<mvars, xvars, ovars>>

(* A day passes *)
DayTick ==
    /\ tick < MaxDayTick
    /\ tick' = tick + 1
    /\ UNCHANGED <<messages, recovery_logs, user_activities_history, start_date_sp>>
    /\ UNCHANGED <<mvars, xvars, ovars>>

(* CURRENT_DATE *)
CURRENT_DATE == RetDay(tick)

(* (m.sent_at AT TIME ZONE 'America/Sao_Paulo')::date *)
local_date(sent_at) == (sent_at - SAO_PAULO_OFFSET) \div MINUTES_PER_DAY

(* date_trunc('week', d)::date : the Monday of d's week *)
date_trunc_week(d) == d - (d % 7)

(* ROUND(100.0 * num / den, 1), in tenths of a percent *)
ROUND1(num, den) == (2000 * num + den) \div (2 * den)

product_users == {u \in UserIds : UserWaid(u) \notin internal_waids}

(* JOIN product_users u ON (u.waid = m.waid OR u.id = m.user_id) WHERE m.sender = 'user' *)
user_messages ==
    { [user_id |-> x[2], local_date |-> local_date(x[1].sent_at)] :
        x \in { y \in messages \X product_users :
                  /\ (UserWaid(y[2]) = y[1].waid \/ y[2] = y[1].user_id)
                  /\ y[1].sender = "user" } }

SetMax(S) == CHOOSE x \in S : \A y \in S : x >= y

(* MIN(local_date), MAX(local_date) ... GROUP BY user_id *)
user_first_last(um) ==
    { [user_id |-> u,
       first_active_date |-> SetMin({r.local_date : r \in {x \in um : x.user_id = u}}),
       last_active_date  |-> SetMax({r.local_date : r \in {x \in um : x.user_id = u}})] :
        u \in {r.user_id : r \in um} }

(* Faulty variant: the cohort week is taken from the last active date *)
user_with_cohort_week_fromLast(ufl) ==
    { [user_id |-> r.user_id,
       first_active_date |-> r.first_active_date,
       cohort_week_start |-> date_trunc_week(r.last_active_date)] : r \in ufl }

(* SELECT user_id, first_active_date, date_trunc('week', first_active_date) *)
user_with_cohort_week(ufl) ==
    { [user_id |-> r.user_id,
       first_active_date |-> r.first_active_date,
       cohort_week_start |-> date_trunc_week(r.first_active_date)] : r \in ufl }

(* Faulty variants: the day numbering of the other queries *)
cohort_day_zero_based(local, first) == local - first

cohort_day_one_based(local, first) == (local - first) + 1

(* cohort_day of retention_query's user_days *)
cohort_day(local, first) == (local - first) + 1

(* cohort_day of rolling_retention_query's user_days *)
rolling_cohort_day(local, first) == local - first

(* cohort_day of rolling_retention_summary_query's user_days *)
summary_cohort_day(local, first) == local - first

(* user_days of the three queries; q is "daily", "rolling" or "summary" *)
user_days(q, um, uwc) ==
    { [user_id |-> x[1].user_id,
       cohort_week_start |-> x[2].cohort_week_start,
       local_date |-> x[1].local_date,
       cohort_day |->
          CASE q = "daily"   -> cohort_day(x[1].local_date, x[2].first_active_date)
            [] q = "rolling" -> rolling_cohort_day(x[1].local_date, x[2].first_active_date)
            [] q = "summary" -> summary_cohort_day(x[1].local_date, x[2].first_active_date)] :
        x \in { y \in um \X uwc : y[2].user_id = y[1].user_id } }

(* COUNT(DISTINCT user_id) ... GROUP BY cohort_week_start *)
cohort_sizes(uwc) ==
    { [cohort_week_start |-> cws,
       cohort_size |-> Cardinality({r.user_id : r \in {x \in uwc : x.cohort_week_start = cws}})] :
        cws \in {r.cohort_week_start : r \in uwc} }

(* COUNT(DISTINCT user_id) ... GROUP BY cohort_week_start, cohort_day *)
users_active_on_day(ud) ==
    { [cohort_week_start |-> k[1],
       cohort_day |-> k[2],
       active_users |-> Cardinality({r.user_id : r \in {x \in ud :
                              x.cohort_week_start = k[1] /\ x.cohort_day = k[2]}})] :
        k \in {<<r.cohort_week_start, r.cohort_day>> : r \in ud} }

(* retention_query *)
cohort_retention_weekly ==
    LET um  == user_messages
        uwc == user_with_cohort_week(user_first_last(um))
        ua  == users_active_on_day(user_days("daily", um, uwc))
        cs  == cohort_sizes(uwc)
    IN  { [cohort_week_start |-> x[1].cohort_week_start,
           cohort_day |-> x[1].cohort_day,
           cohort_size |-> x[2].cohort_size,
           active_users |-> x[1].active_users,
           retention_pct |-> ROUND1(x[1].active_users, x[2].cohort_size)] :
            x \in { y \in ua \X cs : y[2].cohort_week_start = y[1].cohort_week_start } }

(* MAX(CASE WHEN cohort_day <= N AND cohort_day >= 1 THEN 1 ELSE 0 END) *)
ActiveDay1To(rows, N) ==
    IF \E r \in rows : r.cohort_day <= N /\ r.cohort_day >= 1 THEN 1 ELSE 0

(* user_activity_by_day ... GROUP BY user_id, cohort_week_start *)
user_activity_by_day(ud) ==
    { [user_id |-> k[1],
       cohort_week_start |-> k[2],
       active_day1      |-> ActiveDay1To({r \in ud : r.user_id = k[1] /\ r.cohort_week_start = k[2]}, 1),
       active_day1_or_2 |-> ActiveDay1To({r \in ud : r.user_id = k[1] /\ r.cohort_week_start = k[2]}, 2),
       active_day1_to_3 |-> ActiveDay1To({r \in ud : r.user_id = k[1] /\ r.cohort_week_start = k[2]}, 3),
       active_day1_to_7 |-> ActiveDay1To({r \in ud : r.user_id = k[1] /\ r.cohort_week_start = k[2]}, 7)] :
        k \in {<<r.user_id, r.cohort_week_start>> : r \in ud} }

(* rolling_retention / rolling_retention_summary:                          *)
(* user_with_cohort_week LEFT JOIN user_activity_by_day, COALESCE(.., 0)   *)
rolling_retention(uwc, uabd) ==
    { [cohort_week_start |-> u.cohort_week_start,
       user_id |-> u.user_id,
       active_within_1d |->
          IF \E a \in uabd : a.user_id = u.user_id /\ a.cohort_week_start = u.cohort_week_start
          THEN (CHOOSE a \in uabd : a.user_id = u.user_id
                                    /\ a.cohort_week_start = u.cohort_week_start).active_day1
          ELSE 0,
       active_within_2d |->
          IF \E a \in uabd : a.user_id = u.user_id /\ a.cohort_week_start = u.cohort_week_start
          THEN (CHOOSE a \in uabd : a.user_id = u.user_id
                                    /\ a.cohort_week_start = u.cohort_week_start).active_day1_or_2
          ELSE 0,
       active_within_3d |->
          IF \E a \in uabd : a.user_id = u.user_id /\ a.cohort_week_start = u.cohort_week_start
          THEN (CHOOSE a \in uabd : a.user_id = u.user_id
                                    /\ a.cohort_week_start = u.cohort_week_start).active_day1_to_3
          ELSE 0,
       active_within_7d |->
          IF \E a \in uabd : a.user_id = u.user_id /\ a.cohort_week_start = u.cohort_week_start
          THEN (CHOOSE a \in uabd : a.user_id = u.user_id
                                    /\ a.cohort_week_start = u.cohort_week_start).active_day1_to_7
          ELSE 0] : u \in uwc }

(* SUM(rr.active_within_Nd) over the rows of a cohort *)
RECURSIVE SumActiveWithin(_, _)
SumActiveWithin(rows, N) ==
    IF rows = {} THEN 0
    ELSE LET r == CHOOSE x \in rows : TRUE
         IN  (CASE N = 1 -> r.active_within_1d
                [] N = 2 -> r.active_within_2d
                [] N = 3 -> r.active_within_3d
                [] N = 7 -> r.active_within_7d)
             + SumActiveWithin(rows \ {r}, N)

(* Faulty variant: a cohort of exactly N days is still held back *)
old_enough_strict(today, cws, N) == (today - cws) > N

(* CASE WHEN (CURRENT_DATE - cohort_week_start) >= N, rolling_retention_query *)
rolling_old_enough(today, cws, N) == (today - cws) >= N

(* CASE WHEN (CURRENT_DATE - cohort_week_start) >= 7, rolling_retention_summary_query *)
summary_old_enough(today, cws, N) == (today - cws) >= N

(* CASE WHEN ... THEN ROUND(100.0 * SUM(active_within_Nd) / cohort_size, 1) ELSE NULL END *)
retention_Nd(q, rows, cws, size, N) ==
    IF (IF q = "rolling" THEN rolling_old_enough(CURRENT_DATE, cws, N)
                         ELSE summary_old_enough(CURRENT_DATE, cws, N))
    THEN ROUND1(SumActiveWithin(rows, N), size)
    ELSE NULL

(* rolling_retention_query *)
cohort_rolling_metrics ==
    LET um  == user_messages
        uwc == user_with_cohort_week(user_first_last(um))
        rr  == rolling_retention(uwc, user_activity_by_day(user_days("rolling", um, uwc)))
        cs  == cohort_sizes(uwc)
    IN  { [cohort_week_start |-> c.cohort_week_start,
           cohort_size |-> c.cohort_size,
           retention_1d |-> retention_Nd("rolling",
              {r \in rr : r.cohort_week_start = c.cohort_week_start},
              c.cohort_week_start, c.cohort_size, 1),
           retention_2d |-> retention_Nd("rolling",
              {r \in rr : r.cohort_week_start = c.cohort_week_start},
              c.cohort_week_start, c.cohort_size, 2),
           retention_3d |-> retention_Nd("rolling",
              {r \in rr : r.cohort_week_start = c.cohort_week_start},
              c.cohort_week_start, c.cohort_size, 3),
           retention_7d |-> retention_Nd("rolling",
              {r \in rr : r.cohort_week_start = c.cohort_week_start},
              c.cohort_week_start, c.cohort_size, 7)] : c \in cs }

(* rolling_retention_summary_query: the 7-day window only *)
cohort_7d_retention ==
    LET um  == user_messages
        uwc == user_with_cohort_week(user_first_last(um))
        rrs == rolling_retention(uwc, user_activity_by_day(user_days("summary", um, uwc)))
        cs  == cohort_sizes(uwc)
    IN  { [cohort_week_start |-> c.cohort_week_start,
           cohort_size |-> c.cohort_size,
           retention_7d |-> retention_Nd("summary",
              {r \in rrs : r.cohort_week_start = c.cohort_week_start},
              c.cohort_week_start, c.cohort_size, 7)] : c \in cs }

InitRetention ==
    /\ messages = {}
    /\ recovery_logs = {}
    /\ user_activities_history = {}
    /\ tick = 0
    /\ start_date_sp = 0
    /\ view = "tab1"
    /\ recent_messages = <<>>
    /\ pc = "done"
    /\ i = 1
    /\ skip_idx = {}
    /\ transcript_for_audio = <<>>
    /\ interpretation_for_image = <<>>
    /\ description_for_sticker = <<>>
    /\ rows_display = <<>>
    /\ Idle

NextRetention ==
    \/ \E u \in UserIds, sender \in Senders, h \in TimesOfDay : StoreMessageOnDay(u, sender, h)
    \/ DayTick

SpecRetention == InitRetention /\ [][NextRetention]_vars

-----------------------------------------------------------------------------
(***************************************************************************)
(* Activity completions by cohort, in consecutive 7-day blocks (tab3).     *)
(***************************************************************************)

(* A user row completes an activity on the current day *)
CompleteActivityOnDay(u, h) ==
    /\ NumEvents < MaxEvents
    /\ user_activities_history' = user_activities_history \cup
          {[user_id |-> u, completed_at |-> MINUTES_PER_DAY * RetDay(tick) + h]}
    /\ UNCHANGED <<messages, recovery_logs, tick, start_date_sp>>
    /\ UNCHANGED <<mvars, xvars, ovars>>

(* datetime.now(pytz.timezone("America/Sao_Paulo")).date() *)
today_local == RetDay(tick)

Blocks == 1..4

(* (completed_at AT TIME ZONE 'America/Sao_Paulo')::date - first_active_date *)
completion_offset(c, u) == local_date(c.completed_at) - u.first_active_date

(* BETWEEN 0 AND 6, 7 AND 13, 14 AND 20, 21 AND 27 *)
in_block(off, k) == off >= 7 * (k - 1) /\ off <= 7 * k - 1

(* completions_by_block: COUNT FILTER (WHERE ...) GROUP BY uah.user_id, uwc.cohort_week_start *)
completions_by_block(uwc) ==
    { [user_id |-> u.user_id,
       cohort_week_start |-> u.cohort_week_start,
       c_w |-> [k \in Blocks |->
                  Cardinality({c \in user_activities_history :
                                  /\ c.user_id = u.user_id
                                  /\ in_block(completion_offset(c, u), k)})]] :
        u \in { x \in uwc : \E c \in user_activities_history :
                                /\ c.user_id = x.user_id
                                /\ completion_offset(c, x) >= 0
                                /\ completion_offset(c, x) <= 27 } }

(* user_completions_blocks: LEFT JOIN completions_by_block, COALESCE(c_wk, 0) *)
user_completions_blocks(uwc, cbb) ==
    { [user_id |-> u.user_id,
       cohort_week_start |-> u.cohort_week_start,
       c_w |-> IF \E c \in cbb : c.user_id = u.user_id
                                  /\ c.cohort_week_start = u.cohort_week_start
               THEN (CHOOSE c \in cbb : c.user_id = u.user_id
                                        /\ c.cohort_week_start = u.cohort_week_start).c_w
               ELSE [k \in Blocks |-> 0]] : u \in uwc }

(* activity_completions_query: per cohort, wk_pct_nplus and w1_w2_nplus *)
activity_completions_df ==
    LET uwc == user_with_cohort_week(user_first_last(user_messages))
        ucb == user_completions_blocks(uwc, completions_by_block(uwc))
        cs  == cohort_sizes(uwc)
    IN  { [cohort_week_start |-> c.cohort_week_start,
           cohort_size |-> c.cohort_size,
           w_pct |-> [k \in Blocks |-> [n \in 1..4 |->
              ROUND1(Cardinality({r \in ucb : /\ r.cohort_week_start = c.cohort_week_start
                                               /\ r.c_w[k] >= n}), c.cohort_size)]],
           w1_w2 |-> [n \in 1..4 |->
              ROUND1(Cardinality({r \in ucb : /\ r.cohort_week_start = c.cohort_week_start
                                               /\ r.c_w[1] >= n /\ r.c_w[2] >= n}),
                     c.cohort_size)]] : c \in cs }

(* ac["days_old"] = (today_local - cohort_week_start).days *)
days_old(row) == today_local - row.cohort_week_start

(* ac[ac["days_old"] >= w_days] *)
eligible(ac, w_days) == {r \in ac : days_old(r) >= w_days}

(* The chart averages a block over its eligible cohorts; blocks with none  *)
(* are left out.  The mean is kept as the sum and the number of cohorts.   *)
RECURSIVE SumPct(_, _, _)
SumPct(rows, k, n) ==
    IF rows = {} THEN 0
    ELSE LET r == CHOOSE x \in rows : TRUE
         IN  r.w_pct[k][n] + SumPct(rows \ {r}, k, n)

chart_rows ==
    LET ac == activity_completions_df
    IN  { [window |-> x[1], metric |-> x[2],
           pct_sum |-> SumPct(eligible(ac, 7 * x[1]), x[1], x[2]),
           pct_count |-> Cardinality(eligible(ac, 7 * x[1])),
           cohorts |-> {r.cohort_week_start : r \in eligible(ac, 7 * x[1])}] :
            x \in { y \in Blocks \X (1..4) : eligible(activity_completions_df, 7 * y[1]) # {} } }

(* The three tables: W1, W2, and W1 and W2 together *)
ac_w1 == { [cohort_week_start |-> r.cohort_week_start, cohort_size |-> r.cohort_size,
            pct |-> r.w_pct[1]] : r \in eligible(activity_completions_df, 7) }

ac_w2 == { [cohort_week_start |-> r.cohort_week_start, cohort_size |-> r.cohort_size,
            pct |-> r.w_pct[2]] : r \in eligible(activity_completions_df, 14) }

ac_w1w2 == { [cohort_week_start |-> r.cohort_week_start, cohort_size |-> r.cohort_size,
              pct |-> r.w1_w2] : r \in eligible(activity_completions_df, 14) }

NextBlocks ==
    \/ \E u \in UserIds, sender \in Senders, h \in TimesOfDay : StoreMessageOnDay(u, sender, h)
    \/ \E u \in UserIds, h \in TimesOfDay : CompleteActivityOnDay(u, h)
    \/ DayTick

SpecBlocks == InitRetention /\ [][NextBlocks]_vars

-----------------------------------------------------------------------------
(***************************************************************************)
(* Python values and json.loads.  A string is the sequence of its          *)
(* characters.  A value is a record: t is its Python type, s the           *)
(* characters of a str (or the digits of a number), kv the items of a list *)
(* or the <<key, value>> pairs of a dict, in insertion order.              *)
(***************************************************************************)

PyNone == [t |-> "none", s |-> <<>>, kv |-> <<>>]

(* float('nan'): a NULL of a pandas column *)
PyNaN == [t |-> "nan", s |-> <<>>, kv |-> <<>>]

PyStr(chars) == [t |-> "str", s |-> chars, kv |-> <<>>]

PyNum(digits) == [t |-> "num", s |-> digits, kv |-> <<>>]

PyBool(b) == [t |-> "bool", s |-> IF b THEN <<"1">> ELSE <<>>, kv |-> <<>>]

PyList(items) == [t |-> "list", s |-> <<>>, kv |-> items]

PyDict(pairs) == [t |-> "dict", s |-> <<>>, kv |-> pairs]

(* pd.isna(x) or x is None *)
isna(v) == v.t \in {"none", "nan"}

(* isinstance(v, str), isinstance(v, dict), isinstance(v, list) *)
is_str(v) == v.t = "str"

is_dict(v) == v.t = "dict"

is_list(v) == v.t = "list"

(* key in obj *)
has_key(obj, key) == \E n \in 1..Len(obj.kv) : obj.kv[n][1] = key

(* obj[key] *)
get_key(obj, key) == obj.kv[CHOOSE n \in 1..Len(obj.kv) : obj.kv[n][1] = key][2]

(* d[key] = v while a JSON object is read: a repeated key keeps its place  *)
(* and takes the last value                                                *)
put_key(pairs, key, v) ==
    IF \E n \in 1..Len(pairs) : pairs[n][1] = key
    THEN [n \in 1..Len(pairs) |-> IF pairs[n][1] = key THEN <<key, v>> ELSE pairs[n]]
    ELSE Append(pairs, <<key, v>>)

(* A string literal as the sequence of its characters *)
lit(str) == [n \in 1..Len(str) |-> SubSeq(str, n, n)]

(* s.startswith(prefix) and `sub in s` *)
startswith(s, prefix) ==
    Len(prefix) <= Len(s) /\ SubSeq(s, 1, Len(prefix)) = prefix

contains(s, sub) ==
    \E p \in 1..(Len(s) - Len(sub) + 1) : SubSeq(s, p, p + Len(sub) - 1) = sub

(* s.strip(): the whitespace of the model is the blank *)
RECURSIVE lstrip(_)
lstrip(s) == IF s # <<>> /\ Head(s) = " " THEN lstrip(Tail(s)) ELSE s

RECURSIVE rstrip(_)
rstrip(s) ==
    IF s # <<>> /\ s[Len(s)] = " " THEN rstrip(SubSeq(s, 1, Len(s) - 1)) ELSE s

strip(s) == rstrip(lstrip(s))

(* A local assignment x = v followed by the statements F: the value of F   *)
(* at v, with v computed once                                              *)
Bind(v, F(_)) == CHOOSE y \in {F(x) : x \in {v}} : TRUE

(* The scanner of json.loads.  A result is [ok, val, pos]: pos is the      *)
(* position after the value read.  Of the string escapes, \" \\ and \/     *)
(* are read; numbers are integers; the literals are true, false, null and  *)
(* NaN.                                                                    *)
Digits == {"0", "1", "2", "3", "4", "5", "6", "7", "8", "9"}

ScanFail == [ok |-> FALSE, val |-> PyNone, pos |-> 0]

ScanOk(v, p) == [ok |-> TRUE, val |-> v, pos |-> p]

RECURSIVE skip_ws(_, _)
skip_ws(s, p) == IF p <= Len(s) /\ s[p] = " " THEN skip_ws(s, p + 1) ELSE p

(* The characters after an opening quote, up to the closing one; p is the  *)
(* position to read from, acc the characters read so far                   *)
RECURSIVE scan_string(_, _, _)
scan_string(s, p, acc) ==
    LET stops == {q \in p..Len(s) : s[q] \in {"\"", "\\"}}
    IN  IF stops = {} THEN ScanFail
        ELSE LET q    == CHOOSE x \in stops : \A y \in stops : x <= y
                 read == acc \o SubSeq(s, p, q - 1)
             IN  IF s[q] = "\"" THEN ScanOk(PyStr(read), q + 1)
                 ELSE IF q + 1 <= Len(s) /\ s[q + 1] \in {"\"", "\\", "/"}
                      THEN scan_string(s, q + 2, Append(read, s[q + 1]))
                      ELSE ScanFail

RECURSIVE scan_digits(_, _)
scan_digits(s, p) == IF p <= Len(s) /\ s[p] \in Digits THEN scan_digits(s, p + 1) ELSE p

(* An optional minus sign, then 0 or a run of digits *)
scan_number(s, p) ==
    LET q == IF s[p] = "-" THEN p + 1 ELSE p
        e == IF q <= Len(s) /\ s[q] = "0" THEN q + 1 ELSE scan_digits(s, q)
    IN  IF e = q THEN ScanFail ELSE ScanOk(PyNum(SubSeq(s, p, e - 1)), e)

scan_literal(s, p) ==
    LET rest == SubSeq(s, p, Len(s))
    IN  IF startswith(rest, lit("true")) THEN ScanOk(PyBool(TRUE), p + 4)
        ELSE IF startswith(rest, lit("false")) THEN ScanOk(PyBool(FALSE), p + 5)
        ELSE IF startswith(rest, lit("null")) THEN ScanOk(PyNone, p + 4)
        ELSE IF startswith(rest, lit("NaN")) THEN ScanOk(PyNaN, p + 3)
        ELSE ScanFail

RECURSIVE scan_value(_, _), scan_array(_, _, _), scan_object(_, _, _)

(* p is after "[" or after a ","; acc holds the items read *)
scan_array(s, p, acc) ==
    LET q == skip_ws(s, p)
    IN  IF q > Len(s) THEN ScanFail
        ELSE IF s[q] = "]" /\ acc = <<>> THEN ScanOk(PyList(acc), q + 1)
        ELSE Bind(scan_value(s, q), LAMBDA r :
                 LET e == skip_ws(s, r.pos)
                 IN  IF ~r.ok \/ e > Len(s) THEN ScanFail
                     ELSE IF s[e] = "," THEN Bind(Append(acc, r.val), LAMBDA d : scan_array(s, e + 1, d))
                     ELSE IF s[e] = "]" THEN ScanOk(PyList(Append(acc, r.val)), e + 1)
                     ELSE ScanFail)

(* p is after "{" or after a ","; acc holds the pairs read *)
scan_object(s, p, acc) ==
    LET q == skip_ws(s, p)
        k == scan_string(s, q + 1, <<>>)
        c == skip_ws(s, k.pos)
    IN  IF q > Len(s) THEN ScanFail
        ELSE IF s[q] = "}" /\ acc = <<>> THEN ScanOk(PyDict(acc), q + 1)
        ELSE IF s[q] # "\"" THEN ScanFail
        ELSE IF ~k.ok THEN ScanFail
        ELSE IF c > Len(s) \/ s[c] # ":" THEN ScanFail
        ELSE Bind(scan_value(s, c + 1), LAMBDA r :
                 LET e == skip_ws(s, r.pos)
                 IN  IF ~r.ok \/ e > Len(s) THEN ScanFail
                     ELSE Bind(put_key(acc, k.val.s, r.val), LAMBDA d :
                              IF s[e] = "," THEN scan_object(s, e + 1, d)
                              ELSE IF s[e] = "}" THEN ScanOk(PyDict(d), e + 1)
                              ELSE ScanFail))

scan_value(s, p) ==
    LET q == skip_ws(s, p)
    IN  IF q > Len(s) THEN ScanFail
        ELSE IF s[q] = "{" THEN scan_object(s, q + 1, <<>>)
        ELSE IF s[q] = "[" THEN scan_array(s, q + 1, <<>>)
        ELSE IF s[q] = "\"" THEN scan_string(s, q + 1, <<>>)
        ELSE IF s[q] = "-" \/ s[q] \in Digits THEN scan_number(s, q)
        ELSE scan_literal(s, q)

(* json.loads(s): [ok |-> FALSE] stands for the exception it raises *)
json_loads(s) ==
    Bind(scan_value(s, 1), LAMBDA r :
        IF r.ok /\ skip_ws(s, r.pos) = Len(s) + 1
        THEN [ok |-> TRUE, val |-> r.val]
        ELSE [ok |-> FALSE, val |-> PyNone])

-----------------------------------------------------------------------------
(***************************************************************************)
(* The payload decoders: extract_message_text (Recent Messages),           *)
(* extract_msg_text (User Deep Dive) and _extract_message_text_snippet     *)
(* (reply-pending table).                                                  *)
(***************************************************************************)

Decoders == {"extract_message_text", "extract_msg_text", "_extract_message_text_snippet"}

(* The result of a call that ends in an exception *)
Raised == [t |-> "raised", s |-> <<>>, kv |-> <<>>]

EmptyStr == PyStr(<<>>)

(* `if found:` *)
truthy(v) ==
    CASE v.t = "none" -> FALSE
      [] v.t = "str"  -> v.s # <<>>
      [] v.t = "num"  -> v.s # <<"0">>
      [] v.t = "bool" -> v.s # <<>>
      [] v.t \in {"list", "dict"} -> v.kv # <<>>
      [] OTHER -> TRUE

(* Faulty variant: the exception of the first json.loads is not caught *)
parse_json_uncaught(s) ==
    Bind(json_loads(s), LAMBDA r :
        IF ~r.ok THEN Raised
        ELSE IF is_str(r.val)
             THEN Bind(json_loads(r.val.s), LAMBDA r2 : IF r2.ok THEN r2.val ELSE r.val)
             ELSE r.val)

(* parse_json(s): decode, decode again if the result is a str; None if the *)
(* first decoding fails                                                    *)
parse_json(s) ==
    Bind(json_loads(s), LAMBDA r :
        IF ~r.ok THEN PyNone
        ELSE IF is_str(r.val)
             THEN Bind(json_loads(r.val.s), LAMBDA r2 : IF r2.ok THEN r2.val ELSE r.val)
             ELSE r.val)

(* for key in ["text", "body", ...] *)
text_keys ==
    << lit("text"),
       lit("body"),
       lit("title"),
       lit("message"),
       lit("content"),
       lit("caption"),
       lit("label"),
       lit("description"),
       lit("value") >>

payload_key == lit("payload")

(* for key in ["interactive", "postback", "template", ...] *)
container_keys(d) ==
    IF d = "_extract_message_text_snippet"
    THEN << lit("interactive"),
       lit("postback"),
       lit("template"),
       lit("flows"),
       lit("quickReply") >>
    ELSE << lit("interactive"),
       lit("postback"),
       lit("template") >>

(* depth > 10 (depth > 8 in the snippet decoder) *)
depth_limit(d) == IF d = "_extract_message_text_snippet" THEN 8 ELSE 10

(* len(obj) > 2 *)
long_enough(chars) == Len(chars) > 2

RECURSIVE find_text(_, _, _), find_in_keys(_, _, _, _), find_in_payload(_, _, _),
          find_in_values(_, _, _, _), find_in_items(_, _, _, _)

(* the loop over the priority keys, from the n-th on *)
find_in_keys(d, obj, depth, n) ==
    IF n > Len(text_keys) THEN PyNone
    ELSE IF ~has_key(obj, text_keys[n]) THEN find_in_keys(d, obj, depth, n + 1)
    ELSE Bind(get_key(obj, text_keys[n]), LAMBDA val :
             IF is_str(val) /\ long_enough(val.s) THEN val
             ELSE Bind(find_text(d, val, depth + 1), LAMBDA found :
                      IF truthy(found) THEN found
                      ELSE find_in_keys(d, obj, depth, n + 1)))

(* if "payload" in obj: ...; None when the search goes on *)
find_in_payload(d, obj, depth) ==
    Bind(get_key(obj, payload_key), LAMBDA payload :
        IF is_str(payload)
        THEN Bind(parse_json(payload.s), LAMBDA pj :
                 Bind(IF is_dict(pj) \/ is_list(pj)
                      THEN find_text(d, pj, depth + 1) ELSE PyNone, LAMBDA found :
                          IF truthy(found) THEN found
                          ELSE IF long_enough(payload.s) THEN payload
                          ELSE PyNone))
        ELSE Bind(find_text(d, payload, depth + 1), LAMBDA found :
                 IF truthy(found) THEN found ELSE PyNone))

(* for val in obj.values(): if isinstance(val, (dict, list, str)) *)
find_in_values(d, obj, depth, n) ==
    IF n > Len(obj.kv) THEN PyNone
    ELSE Bind(obj.kv[n][2], LAMBDA val :
             Bind(IF is_dict(val) \/ is_list(val) \/ is_str(val)
                  THEN find_text(d, val, depth + 1) ELSE PyNone, LAMBDA found :
                      IF truthy(found) THEN found
                      ELSE find_in_values(d, obj, depth, n + 1)))

(* for item in obj *)
find_in_items(d, obj, depth, n) ==
    IF n > Len(obj.kv) THEN PyNone
    ELSE Bind(obj.kv[n], LAMBDA item :
             Bind(find_text(d, item, depth + 1), LAMBDA found :
                 IF truthy(found) THEN found ELSE find_in_items(d, obj, depth, n + 1)))

(* find_text(obj, depth) of decoder d *)
find_text(d, obj, depth) ==
    IF depth > depth_limit(d) \/ obj = PyNone THEN PyNone
    ELSE IF is_str(obj) /\ long_enough(obj.s) THEN obj
    ELSE IF is_dict(obj)
         THEN Bind(find_in_keys(d, obj, depth, 1), LAMBDA by_key :
                  IF truthy(by_key) THEN by_key
                  ELSE Bind(IF d # "_extract_message_text_snippet" /\ has_key(obj, payload_key)
                            THEN find_in_payload(d, obj, depth) ELSE PyNone, LAMBDA by_payload :
                                IF truthy(by_payload) THEN by_payload
                                ELSE find_in_values(d, obj, depth, 1)))
    ELSE IF is_list(obj) THEN find_in_items(d, obj, depth, 1)
    ELSE PyNone

(* for key in [...]: if key in data: found = find_text(data[key]); the     *)
(* first text found, from the n-th container key on                        *)
RECURSIVE find_in_containers(_, _, _)
find_in_containers(d, data, n) ==
    IF n > Len(container_keys(d)) THEN PyNone
    ELSE Bind(IF has_key(data, container_keys(d)[n])
              THEN find_text(d, get_key(data, container_keys(d)[n]), 0)
              ELSE PyNone, LAMBDA found :
                  IF truthy(found) THEN found ELSE find_in_containers(d, data, n + 1))

(* An exception leaves the function that does not catch it:                *)
(* the value of `body` unless `inner` raised                               *)
propagate(inner, body) == IF inner = Raised THEN Raised ELSE body

(* Faulty variant: a payload that looks like JSON is not shown *)
fallback_text_hiding_json(msg_str) ==
    IF startswith(msg_str, <<"{">>) \/ startswith(msg_str, <<"[">>)
    THEN EmptyStr ELSE PyStr(msg_str)

(* Fallback: the payload itself if it looks like JSON, otherwise the       *)
(* original string                                                         *)
fallback_text(msg_str) ==
    IF startswith(msg_str, <<"{">>) \/ startswith(msg_str, <<"[">>)
    THEN PyStr(msg_str) ELSE PyStr(msg_str)

(* The common body of extract_message_text and extract_msg_text *)
full_text(d, raw) ==
    IF isna(raw) THEN EmptyStr
    ELSE Bind(strip(raw.s), LAMBDA msg_str :
         Bind(parse_json(msg_str), LAMBDA data :
         Bind(IF is_dict(data) THEN find_in_containers(d, data, 1) ELSE PyNone, LAMBDA nested :
             propagate(data,
                 IF truthy(nested) THEN nested
                 ELSE Bind(IF data # PyNone THEN find_text(d, data, 0) ELSE PyNone, LAMBDA found :
                          IF truthy(found) THEN found
                          ELSE IF is_str(data) /\ Len(data.s) > 2 THEN data
                          ELSE fallback_text(msg_str))))))

(* extract_message_text(raw_msg), Recent Messages *)
extract_message_text(raw) == full_text("extract_message_text", raw)

(* extract_msg_text(raw_msg), User Deep Dive *)
extract_msg_text(raw) == full_text("extract_msg_text", raw)

(* (text[:max_len] + "...") if len(text) > max_len else text *)
truncate(chars, max_len) ==
    IF Len(chars) > max_len THEN Append(SubSeq(chars, 1, max_len), "...") ELSE chars

(* _extract_message_text_snippet(raw_msg, max_len) *)
extract_message_text_snippet(raw, max_len) ==
    IF isna(raw) THEN EmptyStr
    ELSE Bind(strip(raw.s), LAMBDA msg_str :
         Bind(json_loads(msg_str), LAMBDA r :
             IF ~r.ok THEN PyStr(truncate(msg_str, max_len))
             ELSE Bind(IF is_str(r.val)
                       THEN Bind(json_loads(r.val.s), LAMBDA r2 :
                                IF r2.ok THEN r2.val ELSE r.val)
                       ELSE r.val, LAMBDA data :
                  Bind(IF is_dict(data)
                       THEN find_in_containers("_extract_message_text_snippet", data, 1)
                       ELSE PyNone, LAMBDA nested :
                  Bind(IF truthy(nested) THEN nested
                       ELSE IF data # PyNone
                            THEN find_text("_extract_message_text_snippet", data, 0)
                            ELSE PyNone, LAMBDA found :
                  Bind(IF ~truthy(found) /\ is_str(data) /\ Len(data.s) > 2
                       THEN data ELSE found, LAMBDA found2 :
                      PyStr(truncate(strip(IF truthy(found2) THEN found2.s ELSE msg_str),
                                     max_len))))))))

(* max_len of the reply-pending table's call *)
SnippetMaxLen == 100

(* decoder d applied to a raw payload *)
decode(d, raw) ==
    CASE d = "extract_message_text" -> extract_message_text(raw)
      [] d = "extract_msg_text" -> extract_msg_text(raw)
      [] d = "_extract_message_text_snippet" -> extract_message_text_snippet(raw, SnippetMaxLen)

(* is_template(raw_msg) *)
is_template(raw) ==
    IF isna(raw) THEN FALSE
    ELSE Bind(json_loads(strip(raw.s)), LAMBDA r :
             /\ r.ok
             /\ Bind(IF is_str(r.val)
                     THEN Bind(json_loads(r.val.s), LAMBDA r2 :
                              IF r2.ok THEN r2.val ELSE r.val)
                     ELSE r.val, LAMBDA data :
                         /\ is_dict(data)
                         /\ \/ has_key(data, lit("notification"))
                            \/ has_key(data, lit("template"))
                            \/ /\ has_key(data, lit("type"))
                               /\ get_key(data, lit("type")) = PyStr(lit("template"))))

(* The marker substrings the classification predicates look for *)
marker_chars(mk) == lit(mk)

Markers == {"audio/ogg", "opus", "audio", "\"sticker\"", "image/webp", "\"image\"", "image/jpeg"}

(* raw_str = "" if pd.isna(raw_msg) else str(raw_msg), as the set of       *)
(* markers it contains, next to the stored type                            *)
row_of(type_val, raw) ==
    [msg_type |-> type_val,
     raw |-> IF isna(raw) THEN {} ELSE {mk \in Markers : contains(raw.s, marker_chars(mk))}]

(* Faulty variant: the sticker and image rules come before the audio rule *)
get_type_label_audio_last(type_val, is_audio, is_image, is_sticker, is_tmpl) ==
    IF is_tmpl THEN "template"
    ELSE IF is_sticker THEN "sticker"
    ELSE IF is_image THEN "icon:image"
    ELSE IF is_audio THEN "icon:audio"
    ELSE IF type_val # "" THEN type_val ELSE "-"

(* get_type_label; "icon:audio" and "icon:image" are the headphone and the *)
(* camera icon, "-" the dash shown for a missing type                      *)
get_type_label(type_val, is_audio, is_image, is_sticker, is_tmpl) ==
    IF is_tmpl THEN "template"
    ELSE IF is_audio THEN "icon:audio"
    ELSE IF is_sticker THEN "sticker"
    ELSE IF is_image THEN "icon:image"
    ELSE IF type_val # "" THEN type_val ELSE "-"

(* get_type_label_dd *)
get_type_label_dd(type_val, is_audio, is_image, is_sticker, is_tmpl) ==
    IF is_tmpl THEN "template"
    ELSE IF is_audio THEN "icon:audio"
    ELSE IF is_sticker THEN "sticker"
    ELSE IF is_image THEN "icon:image"
    ELSE IF type_val # "" THEN type_val ELSE "-"

-----------------------------------------------------------------------------
(***************************************************************************)
(* The payloads of the rendering model.  json_dumps writes a value the way *)
(* the messaging integration stores it (compact separators).               *)
(***************************************************************************)

RECURSIVE escape(_)
escape(chars) ==
    IF chars = <<>> THEN <<>>
    ELSE (IF Head(chars) \in {"\"", "\\"} THEN <<"\\", Head(chars)>> ELSE <<Head(chars)>>)
         \o escape(Tail(chars))

RECURSIVE json_dumps(_), dumps_items(_, _), dumps_pairs(_, _)

dumps_items(items, n) ==
    IF n > Len(items) THEN <<>>
    ELSE (IF n > 1 THEN <<",">> ELSE <<>>) \o json_dumps(items[n]) \o dumps_items(items, n + 1)

dumps_pairs(pairs, n) ==
    IF n > Len(pairs) THEN <<>>
    ELSE (IF n > 1 THEN <<",">> ELSE <<>>)
         \o <<"\"">> \o escape(pairs[n][1]) \o <<"\"", ":">> \o json_dumps(pairs[n][2])
         \o dumps_pairs(pairs, n + 1)

json_dumps(v) ==
    CASE v.t = "str"  -> <<"\"">> \o escape(v.s) \o <<"\"">>
      [] v.t = "num"  -> v.s
      [] v.t = "bool" -> IF v.s # <<>> THEN lit("true") ELSE lit("false")
      [] v.t = "none" -> lit("null")
      [] v.t = "nan"  -> lit("NaN")
      [] v.t = "list" -> <<"[">> \o dumps_items(v.kv, 1) \o <<"]">>
      [] v.t = "dict" -> <<"{">> \o dumps_pairs(v.kv, 1) \o <<"}">>

(* Plain strings that are not JSON *)
plain_payloads ==
    { "hello",
      " hello ",
      "hi",
      "hello world",
      "  ",
      "",
      "ok",
      "{hello}",
      "say \"hi\"" }

(* Malformed JSON *)
malformed_payloads ==
    { "{\"text\":\"hello\"",
      " {\"a\":",
      "[1,",
      "{\"text\":\"hello\"}}",
      "\"hello",
      "{\"text\":hello}",
      "{'text':'hello'}",
      "01" }

(* One text, also written with blanks and as a JSON string *)
text_payloads ==
    { "{\"text\":\"hello\"}",
      "{\"text\":\"hi\"}",
      "{\"body\":\"hello\"}",
      "{\"text\":\"\"}",
      "{\"caption\":\"ok\"}",
      "\"hello\"",
      "\"hi\"",
      "\"  hello \"",
      " {\"text\": \"hello\"} ",
      "[ \"hello\" , 1 ]",
      " \"hello\" ",
      "{ }" }

(* Several keys: insertion order against priority order, short strings, values that are not strings *)
priority_payloads ==
    { "{\"body\":\"world\",\"text\":\"hello\"}",
      "{\"text\":\"hi\",\"body\":\"hello\"}",
      "{\"text\":{\"n\":1},\"body\":\"hello\"}",
      "{\"text\":{\"body\":\"inner\"},\"body\":\"outer\"}",
      "{\"text\":null,\"body\":\"hello\"}",
      "{\"text\":12,\"value\":\"hello\"}",
      "{\"other\":\"first\",\"value\":\"second\"}",
      "{\"other\":\"first\",\"n\":7}",
      "{\"value\":[\"inner\"],\"description\":\"outer\"}",
      "{\"title\":true,\"label\":\"hello\"}",
      "{\"message\":\"hello\",\"content\":\"world\",\"caption\":\"other\"}",
      "{\"text\":\"first\",\"text\":\"second\"}" }

(* The payload key *)
payload_key_payloads ==
    { "{\"payload\":\"{\\\"text\\\":\\\"inner\\\"}\",\"other\":\"outer\"}",
      "{\"payload\":\"{\\\"n\\\":1}\"}",
      "{\"payload\":\"\\\"{\\\\\\\"text\\\\\\\":\\\\\\\"inner\\\\\\\"}\\\"\"}",
      "{\"payload\":\"plain\"}",
      "{\"payload\":\"no\",\"other\":\"outer\"}",
      "{\"payload\":{\"text\":\"inner\"}}",
      "{\"payload\":\"inner\",\"value\":\"outer\"}" }

(* A container key next to a top-level text *)
container_payloads ==
    { "{\"interactive\":{\"text\":\"inner\"},\"text\":\"outer\"}",
      "{\"interactive\":{\"n\":1},\"text\":\"outer\"}",
      "{\"postback\":{\"text\":\"inner\"},\"text\":\"outer\"}",
      "{\"postback\":{\"n\":1},\"text\":\"outer\"}",
      "{\"template\":{\"text\":\"inner\"},\"text\":\"outer\"}",
      "{\"template\":{\"n\":1},\"text\":\"outer\"}",
      "{\"flows\":{\"text\":\"inner\"},\"text\":\"outer\"}",
      "{\"flows\":{\"n\":1},\"text\":\"outer\"}",
      "{\"quickReply\":{\"text\":\"inner\"},\"text\":\"outer\"}",
      "{\"quickReply\":{\"n\":1},\"text\":\"outer\"}",
      "{\"text\":\"outer\",\"interactive\":{\"body\":{\"text\":\"inner\"}}}",
      "{\"postback\":{\"n\":1},\"flows\":{\"title\":\"inner\"},\"text\":\"outer\"}",
      "{\"interactive\":\"inner\",\"text\":\"outer\"}" }

(* Lists, scalars, empty containers and nesting around the depth limits *)
shaped_payloads ==
    { "[\"hello\"]",
      "[]",
      "[1,\"hi\",[\"ok\",{\"a\":\"found\"}]]",
      "123",
      "-5",
      "true",
      "false",
      "null",
      "[[[[[[[[\"deep\"]]]]]]]]",
      "[[[[[[[[[\"deep\"]]]]]]]]]",
      "[[[[[[[[[[\"deep\"]]]]]]]]]]",
      "[[[[[[[[[[[\"deep\"]]]]]]]]]]]",
      "{\"a\":{\"a\":{\"a\":{\"a\":{\"a\":{\"a\":{\"a\":{\"a\":{\"a\":\"deep\"}}}}}}}}}",
      "{\"a\":{\"a\":{\"a\":{\"a\":{\"a\":{\"a\":{\"a\":{\"a\":{\"a\":{\"a\":{\"a\":{\"a\":\"deep\"}}}}}}}}}}}}",
      "NaN" }

(* Templates and media markers *)
media_payloads ==
    { "{\"notification\":{\"name\":\"x\"}}",
      "{\"template\":{\"name\":\"x\"}}",
      "{\"type\":\"template\"}",
      "{\"type\":\"text\",\"text\":\"hello\"}",
      "{\"sticker\":{\"mime_type\":\"image/webp\"}}",
      "{\"image\":{\"mime_type\":\"image/jpeg\"}}",
      "{\"audio\":{\"mime_type\":\"audio/ogg\"}}",
      "{\"audio\":{\"codec\":\"opus\"}}",
      "{\"notification\":{\"name\":\"x\"},\"audio\":{\"mime_type\":\"audio/ogg\"}}",
      "{\"sticker\":{\"mime_type\":\"image/webp\"},\"audio\":{\"mime_type\":\"audio/ogg\"}}",
      "{\"image\":{\"mime_type\":\"image/jpeg\"},\"audio\":{\"mime_type\":\"audio/ogg\"}}",
      "\"{\\\"notification\\\":{\\\"name\\\":\\\"x\\\"}}\"" }

(* The texts t of the payloads {"text": t} *)
Texts_t ==
    { "hi",
      "hello",
      "",
      "a",
      "abc",
      "hello world",
      " hey ",
      "123",
      "{}",
      "say \"hi\"",
      "a\\b",
      "{\"text\":\"deeper\"}" }

(* {"text": t} *)
text_mapping(t) == PyDict(<< <<lit("text"), PyStr(lit(t))>> >>)

(* The payload {"text": t}, single-encoded and double-encoded *)
single_encoded(t) == PyStr(json_dumps(text_mapping(t)))

double_encoded(t) == PyStr(json_dumps(single_encoded(t)))

(* A text of n characters *)
long_text(n) == [k \in 1..n |-> "x"]

(* Bound of the rendering model: the longest plain payloads are            *)
(* SnippetMaxLen and SnippetMaxLen + MaxOver characters long               *)
MaxOver == 1

long_payloads ==
    {PyStr(long_text(SnippetMaxLen + k)) : k \in 0..MaxOver}
    \cup {PyStr(<<"{">> \o long_text(SnippetMaxLen + k)) : k \in 0..MaxOver}
    \cup {PyStr(json_dumps(PyDict(<< <<lit("text"), PyStr(long_text(SnippetMaxLen + k))>> >>))) :
            k \in 0..MaxOver}

Payloads ==
    {PyNone, PyNaN}
    \cup {PyStr(lit(x)) : x \in plain_payloads \cup malformed_payloads \cup text_payloads
                               \cup priority_payloads \cup payload_key_payloads
                               \cup container_payloads \cup shaped_payloads
                               \cup media_payloads}
    \cup {single_encoded(t) : t \in Texts_t}
    \cup {double_encoded(t) : t \in Texts_t}
    \cup long_payloads

(* messages.type; "" is a missing type *)
StoredTypes == {"", "text", "audio", "image", "sticker", "interactive"}

-----------------------------------------------------------------------------
(***************************************************************************)
(* Rendering one fetched row.  message_text is the decoder's value for the *)
(* row's own payload; type_label is the row's Type column.                 *)
(***************************************************************************)

(* A row of Recent Messages *)
RenderRecentRow ==
    /\ phase = "fetched"
    /\ decoder = "extract_message_text"
    /\ message_text' = extract_message_text(raw_msg)
    /\ type_label' =
          LET row == row_of(msg_type_val, raw_msg)
          IN  get_type_label(msg_type_val, is_audio_message(row), is_image_message(row),
                             is_sticker_message(row), is_template(raw_msg))
    /\ phase' = "rendered"
    /\ UNCHANGED <<decoder, raw_msg, msg_type_val, resolver, tz_str, user_tz>>
    /\ UNCHANGED <<mvars, dvars, ovars>>

(* A row of the User Deep Dive history *)
RenderHistoryRow ==
    /\ phase = "fetched"
    /\ decoder = "extract_msg_text"
    /\ message_text' = extract_msg_text(raw_msg)
    /\ type_label' =
          LET row == row_of(msg_type_val, raw_msg)
          IN  get_type_label_dd(msg_type_val, is_audio_msg(row), is_image_msg(row),
                                is_sticker_msg(row), is_template(raw_msg))
    /\ phase' = "rendered"
    /\ UNCHANGED <<decoder, raw_msg, msg_type_val, resolver, tz_str, user_tz>>
    /\ UNCHANGED <<mvars, dvars, ovars>>

(* A row of the reply-pending table: the snippet only, no Type column *)
RenderPendingRow ==
    /\ phase = "fetched"
    /\ decoder = "_extract_message_text_snippet"
    /\ message_text' = extract_message_text_snippet(raw_msg, SnippetMaxLen)
    /\ phase' = "rendered"
    /\ UNCHANGED <<decoder, raw_msg, msg_type_val, type_label, resolver, tz_str, user_tz>>
    /\ UNCHANGED <<mvars, dvars, ovars>>

InitRender ==
    /\ phase = "fetched"
    /\ decoder \in Decoders
    /\ raw_msg \in Payloads
    /\ msg_type_val \in StoredTypes
    /\ message_text = PyNone
    /\ type_label = ""
    /\ tz_str = <<>>
    /\ user_tz = <<>>
    /\ resolver = "none"
    /\ NoFormatter
    /\ NoSession
    /\ messages = {}
    /\ recovery_logs = {}
    /\ user_activities_history = {}
    /\ tick = 0
    /\ start_date_sp = 0
    /\ view = "tab1"
    /\ recent_messages = <<>>
    /\ pc = "done"
    /\ i = 1
    /\ skip_idx = {}
    /\ transcript_for_audio = <<>>
    /\ interpretation_for_image = <<>>
    /\ description_for_sticker = <<>>
    /\ rows_display = <<>>

NextRender ==
    \/ RenderRecentRow
    \/ RenderHistoryRow
    \/ RenderPendingRow

SpecRender == InitRender /\ [][NextRender]_vars

-----------------------------------------------------------------------------
(***************************************************************************)
(* The timezone resolvers: _parse_timezone, parse_timezone and the two     *)
(* copies of parse_tz.  The argument is users.timezone (None, NaN or a     *)
(* string); the result is a pytz zone, a fixed offset, None, or an         *)
(* exception that leaves the function.                                     *)
(***************************************************************************)
Resolvers == {"_parse_timezone", "parse_timezone", "parse_tz"}

(* The resolver's results.  off is in minutes east of UTC *)
NoZone == [k |-> "none", name |-> <<>>, off |-> 0]

NamedZone(name) == [k |-> "zone", name |-> name, off |-> 0]

FixedOffset(minutes) == [k |-> "fixed", name |-> <<>>, off |-> minutes]

ResolverRaised == [k |-> "raised", name |-> <<>>, off |-> 0]

(* The names pytz.timezone accepts, as far as the model's inputs go: the   *)
(* zone database has GMT+0 and GMT-0 but no other GMT+h or UTC+h at the    *)
(* top level                                                               *)
known_zones ==
    {lit("America/Sao_Paulo"), lit("Europe/Lisbon"), lit("UTC"), lit("GMT"),
     lit("GMT+0"), lit("GMT-0")}

(* pytz.timezone(name): the zone, or UnknownTimeZoneError *)
pytz_timezone(name) ==
    IF name \in known_zones THEN NamedZone(name) ELSE ResolverRaised

(* int() of one digit *)
digit_value(c) == CHOOSE n \in 0..9 : <<"0", "1", "2", "3", "4", "5", "6", "7", "8", "9">>[n + 1] = c

RECURSIVE int_of(_)
int_of(digits) ==
    IF digits = <<>> THEN 0
    ELSE 10 * int_of(SubSeq(digits, 1, Len(digits) - 1)) + digit_value(digits[Len(digits)])

is_digit_at(s, p) == p \in 1..Len(s) /\ s[p] \in Digits

(* re.search of an optional sign, one or two digits and an optional colon  *)
(* with two digits: the leftmost match, the digits taken greedily.  The    *)
(* result is [found, sign, hh, mm] with the three groups as strings        *)
NoMatch == [found |-> FALSE, sign |-> <<>>, hh |-> <<>>, mm |-> <<>>]

re_search(s) ==
    LET starts == {p \in 1..Len(s) :
                      \/ is_digit_at(s, p)
                      \/ s[p] \in {"+", "-"} /\ is_digit_at(s, p + 1)}
    IN  IF starts = {} THEN NoMatch
        ELSE LET p    == CHOOSE q \in starts : \A r \in starts : q <= r
                 sign == IF s[p] \in {"+", "-"} THEN <<s[p]>> ELSE <<>>
                 d    == p + Len(sign)
                 e    == IF is_digit_at(s, d + 1) THEN d + 1 ELSE d
                 mm   == IF /\ e + 3 <= Len(s)
                            /\ s[e + 1] = ":"
                            /\ is_digit_at(s, e + 2)
                            /\ is_digit_at(s, e + 3)
                         THEN SubSeq(s, e + 2, e + 3) ELSE <<>>
             IN  [found |-> TRUE, sign |-> sign, hh |-> SubSeq(s, d, e), mm |-> mm]

(* The sign of _parse_timezone: the UTC/GMT markers or a leading sign      *)
(* first, otherwise the sign the pattern matched                           *)
sign_markers_first(s, m) ==
    IF contains(s, lit("UTC-")) \/ contains(s, lit("GMT-")) \/ startswith(s, <<"-">>) THEN -1
    ELSE IF contains(s, lit("UTC+")) \/ contains(s, lit("GMT+")) \/ startswith(s, <<"+">>) THEN 1
    ELSE IF m.sign = <<"-">> THEN -1 ELSE 1

(* Faulty variant: without a marker the sign defaults to minus *)
sign_match_first_default_minus(s, m) ==
    LET sign == IF m.sign = <<"+">> THEN 1 ELSE -1
    IN  IF contains(s, lit("UTC-")) \/ contains(s, lit("GMT-")) \/ startswith(s, <<"-">>) THEN -1
        ELSE IF contains(s, lit("UTC+")) \/ contains(s, lit("GMT+")) \/ startswith(s, <<"+">>) THEN 1
        ELSE sign

(* The sign of parse_timezone and parse_tz: the matched sign, then         *)
(* overridden by the markers                                               *)
sign_match_first(s, m) ==
    LET sign == IF m.sign = <<"-">> THEN -1 ELSE 1
    IN  IF contains(s, lit("UTC-")) \/ contains(s, lit("GMT-")) \/ startswith(s, <<"-">>) THEN -1
        ELSE IF contains(s, lit("UTC+")) \/ contains(s, lit("GMT+")) \/ startswith(s, <<"+">>) THEN 1
        ELSE sign

sign_of(f, s, m) ==
    IF f = "_parse_timezone" THEN sign_markers_first(s, m) ELSE sign_match_first(s, m)

(* The largest offset datetime.timezone accepts is below 24 hours *)
DayMinutes == 24 * 60

(* datetime.timezone(offset): ValueError unless the offset is strictly     *)
(* between -24 h and 24 h                                                  *)
datetime_timezone(minutes) ==
    IF -DayMinutes < minutes /\ minutes < DayMinutes
    THEN FixedOffset(minutes) ELSE ResolverRaised

(* timedelta(hours=hours, minutes=minutes), in minutes: the two arguments  *)
(* are added, each with its own sign                                       *)
timedelta(hours, minutes) == 60 * hours + minutes

(* The body shared by the three resolvers: f is the copy that runs *)
resolve(f, arg) ==
    IF ~truthy(arg) \/ isna(arg) THEN NoZone
    ELSE LET s    == strip(arg.s)
             zone == pytz_timezone(s)
             m    == re_search(s)
         IN  IF zone # ResolverRaised THEN zone
             ELSE IF m.found
                  THEN LET hours   == int_of(m.hh) * sign_of(f, s, m)
                           minutes == IF m.mm = <<>> THEN 0 ELSE int_of(m.mm)
                       IN  datetime_timezone(timedelta(hours, minutes))
                  ELSE NoZone

_parse_timezone(arg) == resolve("_parse_timezone", arg)

parse_timezone(arg) == resolve("parse_timezone", arg)

parse_tz(arg) == resolve("parse_tz", arg)

(***************************************************************************)
(* Timezone strings of the model                                           *)
(***************************************************************************)
OffsetPrefixes == {"UTC", "GMT", ""}

OffsetSigns == {"+", "-"}

OffsetHours == {"0", "3", "03", "5", "12", "23"}

OffsetMinutes == {"", "00", "30", "45"}

(* An explicit offset such as UTC-3, GMT+5:30, -03:00 *)
offset_string(prefix, sign, hh, mm) ==
    lit(prefix) \o lit(sign) \o lit(hh) \o (IF mm = "" THEN <<>> ELSE <<":">> \o lit(mm))

explicit_offsets ==
    {offset_string(prefix, sign, hh, mm) :
        prefix \in OffsetPrefixes, sign \in OffsetSigns,
        hh \in OffsetHours, mm \in OffsetMinutes}

zone_names == {"America/Sao_Paulo", "Europe/Lisbon", "UTC", "GMT", " America/Sao_Paulo "}

no_offset_strings == {"garbage", " ", "+", "UTC+", "x-y", "Brasilia"}

bare_number_strings == {"3", "12", "UTC 3", "abc5", "12:3", "123:45", "7-3"}

out_of_range_strings == {"UTC+24", "UTC-24", "-24:00", "99", "UTC+23:60", "UTC+23:99", "GMT-30"}

(* A leading sign, a UTC/GMT marker and the matched sign that disagree *)
conflicting_sign_strings == {"-UTC+3", "+GMT-3", "x-3 UTC+", "x+3 GMT-", "5 UTC-", "-5 GMT+4", "UTC+GMT-3"}

TzStrings ==
    {PyNone, PyNaN, EmptyStr}
    \cup {PyStr(s) : s \in explicit_offsets}
    \cup {PyStr(lit(s)) : s \in zone_names \cup no_offset_strings
                                \cup bare_number_strings \cup out_of_range_strings
                                \cup conflicting_sign_strings}

(***************************************************************************)
(* The timestamp formatters of the pages.  A formatted timestamp is        *)
(* recorded by how it was produced: strftime in a zone (NoZone is UTC),    *)
(* with or without the " UTC" suffix, the first 16 characters of str(ts),  *)
(* the dash or the empty string.                                           *)
(***************************************************************************)
Formatters == {"_format_ts_local", "format_timestamp_local", "format_ts", "format_ts_local"}

(* The copy of the resolver each formatter calls *)
resolver_of(f) ==
    CASE f = "_format_ts_local" -> "_parse_timezone"
      [] f = "format_timestamp_local" -> "parse_timezone"
      [] OTHER -> "parse_tz"

(* ts.strftime(fmt) after the conversion to zone, plus " UTC" if suffix *)
Strftime(zone, suffix) == [as |-> "strftime", zone |-> zone, utc_suffix |-> suffix]

(* str(ts)[:16] *)
RawPrefix == [as |-> "str(ts)[:16]", zone |-> NoZone, utc_suffix |-> FALSE]

Dash == [as |-> "dash", zone |-> NoZone, utc_suffix |-> FALSE]

EmptyText == [as |-> "empty", zone |-> NoZone, utc_suffix |-> FALSE]

(* _format_ts_local(ts, tz_str), Alerts *)
_format_ts_local(t, tz) ==
    IF isna(t) THEN Dash
    ELSE LET zone == _parse_timezone(tz)
         IN  IF zone = ResolverRaised THEN RawPrefix
             ELSE IF zone # NoZone THEN Strftime(zone, FALSE)
             ELSE Strftime(NoZone, TRUE)

(* format_timestamp_local(row), Recent Messages *)
format_timestamp_local(t, tz) ==
    IF isna(t) THEN EmptyText
    ELSE LET zone == parse_timezone(tz)
         IN  IF zone = ResolverRaised THEN RawPrefix
             ELSE IF zone # NoZone THEN Strftime(zone, FALSE)
             ELSE Strftime(NoZone, TRUE)

(* format_ts(ts, tz_str), All Users *)
format_ts(t, tz) ==
    IF isna(t) THEN Dash
    ELSE LET zone == parse_tz(tz)
         IN  IF zone = ResolverRaised THEN RawPrefix
             ELSE IF zone # NoZone THEN Strftime(zone, FALSE)
             ELSE Strftime(NoZone, TRUE)

(* format_ts_local(ts), User Deep Dive: one return for both branches *)
format_ts_local(t, tz) ==
    IF isna(t) THEN Dash
    ELSE LET zone == parse_tz(tz)
         IN  IF zone = ResolverRaised THEN RawPrefix
             ELSE IF zone # NoZone THEN Strftime(zone, FALSE)
             ELSE Strftime(NoZone, FALSE)

(* The timestamps of the model: NULL, NaT and a stored UTC value *)
Timestamps == {PyNone, PyNaN, PyStr(lit("2024-05-01 12:00:00+00:00"))}

(* The resolver is called unless the timestamp is missing *)
phase_after(t) == IF isna(t) THEN "skipped" ELSE "resolved"

FormatTsLocal ==
    /\ phase = "fetched"
    /\ formatter = "_format_ts_local"
    /\ user_tz' = IF isna(timestamp) THEN user_tz ELSE _parse_timezone(tz_str)
    /\ time_shown' = _format_ts_local(timestamp, tz_str)
    /\ phase' = phase_after(timestamp)
    /\ UNCHANGED <<decoder, raw_msg, msg_type_val, message_text, type_label, resolver, tz_str>>
    /\ UNCHANGED <<formatter, timestamp>>
    /\ UNCHANGED <<mvars, dvars, tvars, qvars>>

FormatTimestampLocal ==
    /\ phase = "fetched"
    /\ formatter = "format_timestamp_local"
    /\ user_tz' = IF isna(timestamp) THEN user_tz ELSE parse_timezone(tz_str)
    /\ time_shown' = format_timestamp_local(timestamp, tz_str)
    /\ phase' = phase_after(timestamp)
    /\ UNCHANGED <<decoder, raw_msg, msg_type_val, message_text, type_label, resolver, tz_str>>
    /\ UNCHANGED <<formatter, timestamp>>
    /\ UNCHANGED <<mvars, dvars, tvars, qvars>>

FormatTs ==
    /\ phase = "fetched"
    /\ formatter = "format_ts"
    /\ user_tz' = IF isna(timestamp) THEN user_tz ELSE parse_tz(tz_str)
    /\ time_shown' = format_ts(timestamp, tz_str)
    /\ phase' = phase_after(timestamp)
    /\ UNCHANGED <<decoder, raw_msg, msg_type_val, message_text, type_label, resolver, tz_str>>
    /\ UNCHANGED <<formatter, timestamp>>
    /\ UNCHANGED <<mvars, dvars, tvars, qvars>>

FormatTsLocalDeepDive ==
    /\ phase = "fetched"
    /\ formatter = "format_ts_local"
    /\ user_tz' = IF isna(timestamp) THEN user_tz ELSE parse_tz(tz_str)
    /\ time_shown' = format_ts_local(timestamp, tz_str)
    /\ phase' = phase_after(timestamp)
    /\ UNCHANGED <<decoder, raw_msg, msg_type_val, message_text, type_label, resolver, tz_str>>
    /\ UNCHANGED <<formatter, timestamp>>
    /\ UNCHANGED <<mvars, dvars, tvars, qvars>>

InitTimezone ==
    /\ phase = "fetched"
    /\ formatter \in Formatters
    /\ resolver = resolver_of(formatter)
    /\ timestamp \in Timestamps
    /\ time_shown = EmptyText
    /\ tz_str \in TzStrings
    /\ user_tz = NoZone
    /\ NoSession
    /\ decoder = "none"
    /\ raw_msg = <<>>
    /\ msg_type_val = ""
    /\ message_text = <<>>
    /\ type_label = ""
    /\ messages = {}
    /\ recovery_logs = {}
    /\ user_activities_history = {}
    /\ tick = 0
    /\ start_date_sp = 0
    /\ view = "tab1"
    /\ recent_messages = <<>>
    /\ pc = "done"
    /\ i = 1
    /\ skip_idx = {}
    /\ transcript_for_audio = <<>>
    /\ interpretation_for_image = <<>>
    /\ description_for_sticker = <<>>
    /\ rows_display = <<>>

NextTimezone ==
    \/ FormatTsLocal
    \/ FormatTimestampLocal
    \/ FormatTs
    \/ FormatTsLocalDeepDive

SpecTimezone == InitTimezone /\ [][NextTimezone]_vars

-----------------------------------------------------------------------------
(***************************************************************************)
(* get_pending_reply_detail: the reply-pending list behind st.cache_data.  *)
(***************************************************************************)

(* The instants of the pending-reply model, in minutes: around the one-hour *)
(* mark and around the expiry of the cached result                          *)
PendingTime(k) ==
    CASE k = 0 -> 0
      [] k = 1 -> 60
      [] k = 2 -> 62
      [] k = 3 -> 64
      [] k = 4 -> 70
      [] OTHER -> 70 + 62 * (k - 4)

PendingNow == PendingTime(tick)

(* @st.cache_data(ttl=300): seconds, here in minutes *)
ttl == 300 \div 60

(* interval '1 hour' *)
ONE_HOUR == 1 * 60

(* messages.user_id and messages.waid of the stored messages: linked to a  *)
(* user row, stored under another number of the user, not linked, internal *)
MessageKeys == {<<1, "wa">>, <<3, "wb">>, <<1, "wb">>, <<NULL, "wa">>, <<NULL, "internal">>}

(* m.sender = 'user' AND m.waid NOT IN (SELECT waid FROM internal_waids WHERE waid <> '') *)
last_user_msg_candidates ==
    {m \in messages : m.sender = "user" /\ m.waid \notin (internal_waids \ {""})}

(* ORDER BY m.waid, m.sent_at DESC: the rows DISTINCT ON may keep *)
first_of_waid(cand) ==
    {m \in cand : \A x \in cand : x.waid = m.waid => x.sent_at <= m.sent_at}

(* SELECT DISTINCT ON (m.waid): one of the first rows per waid; which one  *)
(* among rows with equal sent_at is not determined                         *)
last_user_msg ==
    LET cand == last_user_msg_candidates
    IN  {lum \in SUBSET first_of_waid(cand) :
            \A m \in cand : Cardinality({l \in lum : l.waid = m.waid}) = 1}

(* The NOT EXISTS subquery of no_reply_after *)
companion_after(lum_row) ==
    \E m2 \in messages :
        /\ m2.sender = "companion"
        /\ (m2.waid = lum_row.waid
              \/ (lum_row.user_id # NULL /\ m2.user_id = lum_row.user_id))
        /\ m2.sent_at > lum_row.sent_at

(* Faulty variant: a message of exactly one hour is already pending *)
no_reply_after_from_one_hour(lum, CURRENT_TIMESTAMP) ==
    {l \in lum : ~companion_after(l) /\ (CURRENT_TIMESTAMP - l.sent_at) >= ONE_HOUR}

no_reply_after(lum, CURRENT_TIMESTAMP) ==
    {l \in lum : ~companion_after(l) /\ (CURRENT_TIMESTAMP - l.sent_at) > ONE_HOUR}

(* LEFT JOIN users u ON ... : the user rows joined to a pending row *)
joined_users(n) ==
    {u \in UserIds : UserWaid(u) = n.waid \/ (n.user_id # NULL /\ u = n.user_id)}

(* The final SELECT: full_name is modelled by the joined user row, NULL    *)
(* standing for the COALESCE default                                       *)
pending_rows(nra) ==
    UNION { IF joined_users(n) = {}
            THEN {[waid |-> n.waid, full_name |-> NULL, last_sent_at |-> n.sent_at]}
            ELSE {[waid |-> n.waid, full_name |-> u, last_sent_at |-> n.sent_at] :
                      u \in joined_users(n)} : n \in nra }

(* The results the query may return at the current instant *)
pending_query_results ==
    {pending_rows(no_reply_after(lum, PendingNow)) : lum \in last_user_msg}

(* The "Refresh data" button: st.cache_data.clear(), st.cache_resource.clear() *)
RefreshData ==
    /\ cache_data' = <<>>
    /\ cache_resource' = "empty"
    /\ pending_call' = "none"
    /\ UNCHANGED <<connect_calls, df, query_outcome, pending_df>>
    /\ UNCHANGED <<mvars, dvars, xvars, fvars, tvars>>

(* The entry of st.cache_data is present and younger than ttl *)
cache_data_fresh ==
    /\ cache_data # <<>>
    /\ PendingNow - cache_data[1].at < ttl

(* A message is stored at the current instant *)
ReceiveMessage(key, sender) ==
    /\ NumEvents < MaxEvents
    /\ messages' = messages \cup
          {[user_id |-> key[1], waid |-> key[2], sender |-> sender, sent_at |-> PendingNow]}
    /\ pending_call' = "none"
    /\ UNCHANGED <<recovery_logs, user_activities_history, tick, start_date_sp>>
    /\ UNCHANGED <<cache_data, pending_df, cache_resource, connect_calls, df, query_outcome>>
    /\ UNCHANGED <<mvars, xvars, fvars, tvars>>

(* Time passes to the next instant *)
PendingTick ==
    /\ tick < MaxTick
    /\ tick' = tick + 1
    /\ pending_call' = "none"
    /\ UNCHANGED <<messages, recovery_logs, user_activities_history, start_date_sp>>
    /\ UNCHANGED <<cache_data, pending_df, cache_resource, connect_calls, df, query_outcome>>
    /\ UNCHANGED <<mvars, xvars, fvars, tvars>>

(* pending_df = get_pending_reply_detail(): the cached value while it is   *)
(* fresh, otherwise the query runs and its result is cached                *)
get_pending_reply_detail ==
    /\ IF cache_data_fresh
       THEN /\ pending_df' = cache_data[1].value
            /\ pending_call' = "cache"
            /\ UNCHANGED cache_data
       ELSE \E result \in pending_query_results :
                /\ pending_df' = result
                /\ cache_data' = <<[at |-> PendingNow, value |-> result]>>
                /\ pending_call' = "query"
    /\ UNCHANGED <<cache_resource, connect_calls, df, query_outcome>>
    /\ UNCHANGED <<mvars, dvars, xvars, fvars, tvars>>

InitPending ==
    /\ messages = {}
    /\ recovery_logs = {}
    /\ user_activities_history = {}
    /\ tick = 0
    /\ start_date_sp = 0
    /\ view = "tab1"
    /\ recent_messages = <<>>
    /\ pc = "done"
    /\ i = 1
    /\ skip_idx = {}
    /\ transcript_for_audio = <<>>
    /\ interpretation_for_image = <<>>
    /\ description_for_sticker = <<>>
    /\ rows_display = <<>>
    /\ Idle

NextPending ==
    \/ \E key \in MessageKeys, sender \in Senders : ReceiveMessage(key, sender)
    \/ PendingTick
    \/ get_pending_reply_detail
    \/ RefreshData

SpecPending == InitPending /\ [][NextPending]_vars

-----------------------------------------------------------------------------
(***************************************************************************)
(* translate_to_english: both copies, each with its cache in the session.  *)
(* A text is a run-length string: a sequence of runs of one character.     *)
(***************************************************************************)

(* Bound of the translation model: remote calls per view and text *)
MaxRemoteCalls == 2

Views == {"recent", "deepdive"}

Run(c, n) == [c |-> c, n |-> n]

(* text[:5000] if len(text) > 5000 else text *)
TranslateLimit == 5000

TranslateTexts ==
    { <<>>,
      <<Run(" ", 2)>>,
      <<Run("o", 1), Run("i", 1)>>,
      <<Run("a", TranslateLimit)>>,
      <<Run("a", TranslateLimit), Run("b", 1)>>,
      <<Run(" ", 1), Run("a", TranslateLimit), Run("c", 1)>> }

RECURSIVE text_len(_)
text_len(text) ==
    IF text = <<>> THEN 0 ELSE Head(text).n + text_len(Tail(text))

(* text[:k] *)
RECURSIVE text_prefix(_, _)
text_prefix(text, k) ==
    IF text = <<>> \/ k = 0 THEN <<>>
    ELSE IF Head(text).n <= k
         THEN <<Head(text)>> \o text_prefix(Tail(text), k - Head(text).n)
         ELSE <<Run(Head(text).c, k)>>

(* text.strip() == "" *)
strips_to_empty(text) == \A k \in DOMAIN text : text[k].c = " "

(* not text or text.strip() == "" *)
is_blank_text(text) == text = <<>> \/ strips_to_empty(text)

text_to_translate(text) ==
    IF text_len(text) > TranslateLimit THEN text_prefix(text, TranslateLimit) ELSE text

(* Return values: a text, the remote service's translation of a text, the  *)
(* notice returned when the library is missing                             *)
Str(text) == [k |-> "str", v |-> text]

English(text) == [k |-> "english", v |-> text]

UnavailableNotice == [k |-> "notice", v |-> <<>>]

(* text in cache / cache[text]: a cache is a set of key-value entries *)
in_cache(cache, text) == \E e \in cache : e.key = text

cache_get(cache, text) == (CHOOSE e \in cache : e.key = text).value

cache_put(cache, text, value) ==
    {e \in cache : e.key # text} \cup {[key |-> text, value |-> value]}

(* Faulty variant: a failed translation is not remembered *)
cache_after_failure_forgetting(cache, text) == cache

(* except: cache[text] = text *)
cache_after_failure(cache, text) == cache_put(cache, text, Str(text))

(* How a call ends: early return, cache hit, or a remote call that         *)
(* succeeds or raises                                                      *)
RemoteOutcomes == {"ok", "raised"}

outcome_of(v, text, remote) ==
    IF is_blank_text(text) THEN "blank"
    ELSE IF ~GoogleTranslator THEN "unavailable"
    ELSE IF in_cache(translations[v].cache, text) THEN "cached"
    ELSE remote

return_of(v, text, outcome) ==
    CASE outcome = "blank"       -> Str(<<>>)
      [] outcome = "unavailable" -> UnavailableNotice
      [] outcome = "cached"      -> cache_get(translations[v].cache, text)
      [] outcome = "ok"          -> English(text_to_translate(text))
      [] outcome = "raised"      -> Str(text)

session_after(v, text, outcome) ==
    CASE outcome = "ok" ->
           [translations EXCEPT ![v].cache =
               cache_put(@, text, English(text_to_translate(text)))]
      [] outcome = "raised" ->
           [translations EXCEPT ![v].cache = cache_after_failure(@, text),
                                ![v].error_shown = TRUE]
      [] OTHER -> translations

calls_after(v, text, outcome) ==
    IF outcome \in RemoteOutcomes
    THEN [remote_calls EXCEPT ![<<v, text>>] = @ + 1]
    ELSE remote_calls

(* translate_to_english of the recent-messages table *)
TranslateRecent ==
    \E text \in TranslateTexts, remote \in RemoteOutcomes :
        LET outcome == outcome_of("recent", text, remote)
        IN  /\ outcome \in RemoteOutcomes => remote_calls[<<"recent", text>>] < MaxRemoteCalls
            /\ translate_arg' = <<"recent", text>>
            /\ remote_outcome' = outcome
            /\ translated' = return_of("recent", text, outcome)
            /\ translations' = session_after("recent", text, outcome)
            /\ remote_calls' = calls_after("recent", text, outcome)
            /\ UNCHANGED GoogleTranslator
            /\ UNCHANGED <<mvars, dvars, xvars, fvars, qvars>>

(* translate_to_english of the user deep dive *)
TranslateDeepDive ==
    \E text \in TranslateTexts, remote \in RemoteOutcomes :
        LET outcome == outcome_of("deepdive", text, remote)
        IN  /\ outcome \in RemoteOutcomes => remote_calls[<<"deepdive", text>>] < MaxRemoteCalls
            /\ translate_arg' = <<"deepdive", text>>
            /\ remote_outcome' = outcome
            /\ translated' = return_of("deepdive", text, outcome)
            /\ translations' = session_after("deepdive", text, outcome)
            /\ remote_calls' = calls_after("deepdive", text, outcome)
            /\ UNCHANGED GoogleTranslator
            /\ UNCHANGED <<mvars, dvars, xvars, fvars, qvars>>

InitTranslate ==
    /\ GoogleTranslator \in BOOLEAN
    /\ translations = [v \in Views |-> [cache |-> {}, error_shown |-> FALSE]]
    /\ remote_calls = [c \in Views \X TranslateTexts |-> 0]
    /\ remote_outcome = "none"
    /\ translate_arg = <<>>
    /\ translated = <<>>
    /\ cache_resource = "empty"
    /\ connect_calls = 0
    /\ df = "none"
    /\ query_outcome = "none"
    /\ cache_data = <<>>
    /\ pending_df = {}
    /\ pending_call = "none"
    /\ messages = {}
    /\ recovery_logs = {}
    /\ user_activities_history = {}
    /\ tick = 0
    /\ start_date_sp = 0
    /\ view = "tab1"
    /\ recent_messages = <<>>
    /\ pc = "done"
    /\ i = 1
    /\ skip_idx = {}
    /\ transcript_for_audio = <<>>
    /\ interpretation_for_image = <<>>
    /\ description_for_sticker = <<>>
    /\ rows_display = <<>>
    /\ phase = "idle"
    /\ decoder = "none"
    /\ raw_msg = <<>>
    /\ msg_type_val = ""
    /\ message_text = <<>>
    /\ type_label = ""
    /\ tz_str = <<>>
    /\ user_tz = <<>>
    /\ resolver = "none"
    /\ NoFormatter

NextTranslate == TranslateRecent \/ TranslateDeepDive

SpecTranslate == InitTranslate /\ [][NextTranslate]_vars

-----------------------------------------------------------------------------
(***************************************************************************)
(* run_query over the connection cached by st.cache_resource.              *)
(***************************************************************************)

(* Bound of the query model: executions of get_connection's body *)
MaxConnectCalls == 4

(* Callers of run_query *)
Queries == {"get_table_list", "get_message_delivery_detail",
            "get_onboarding_dropoff_detail", "get_pending_reply_detail",
            "get_recovery_ladder_events", "retention_query"}

(* pd.DataFrame(): the empty table *)
EmptyFrame(query) == [query |-> query, rows |-> "empty"]

(* pd.read_sql_query(query, conn) *)
read_sql_query(query) == [query |-> query, rows |-> "result"]

(* The cached function runs its body only when st.cache_resource holds no  *)
(* entry for it                                                            *)
body_runs == cache_resource = "empty"

(* get_connection(): the cached entry, or the body's return value, which   *)
(* is a connection or None                                                 *)
get_connection(connected) ==
    IF ~body_runs THEN cache_resource
    ELSE IF connected THEN "conn" ELSE "None"

(* run_query(query): connected and answered are the outcomes of            *)
(* psycopg2.connect and of rollback / read_sql_query                       *)
RunQuery ==
    \E query \in Queries, connected \in BOOLEAN, answered \in BOOLEAN :
        LET conn == get_connection(connected)
        IN  /\ body_runs => connect_calls < MaxConnectCalls
            /\ connect_calls' = IF body_runs THEN connect_calls + 1 ELSE connect_calls
            /\ IF conn = "None"
               THEN /\ df' = EmptyFrame(query)
                    /\ query_outcome' = "no connection"
                    /\ cache_resource' = conn
               ELSE IF answered
               THEN /\ df' = read_sql_query(query)
                    /\ query_outcome' = "ok"
                    /\ cache_resource' = conn
               ELSE /\ df' = EmptyFrame(query)
                    /\ query_outcome' = "query failed"
                    /\ cache_resource' = "empty"
            /\ UNCHANGED <<cache_data, pending_df, pending_call>>
            /\ UNCHANGED <<mvars, dvars, xvars, fvars, tvars>>

InitQuery ==
    /\ cache_resource = "empty"
    /\ connect_calls = 0
    /\ df = "none"
    /\ query_outcome = "none"
    /\ cache_data = <<>>
    /\ pending_df = {}
    /\ pending_call = "none"
    /\ GoogleTranslator = FALSE
    /\ translations = <<>>
    /\ remote_calls = <<>>
    /\ remote_outcome = "none"
    /\ translate_arg = <<>>
    /\ translated = <<>>
    /\ messages = {}
    /\ recovery_logs = {}
    /\ user_activities_history = {}
    /\ tick = 0
    /\ start_date_sp = 0
    /\ view = "tab1"
    /\ recent_messages = <<>>
    /\ pc = "done"
    /\ i = 1
    /\ skip_idx = {}
    /\ transcript_for_audio = <<>>
    /\ interpretation_for_image = <<>>
    /\ description_for_sticker = <<>>
    /\ rows_display = <<>>
    /\ phase = "idle"
    /\ decoder = "none"
    /\ raw_msg = <<>>
    /\ msg_type_val = ""
    /\ message_text = <<>>
    /\ type_label = ""
    /\ tz_str = <<>>
    /\ user_tz = <<>>
    /\ resolver = "none"
    /\ NoFormatter

NextQuery == RunQuery \/ RefreshData

SpecQuery == InitQuery /\ [][NextQuery]_vars

-----------------------------------------------------------------------------
(* Vocabulary of the merge properties *)

(* Every recorded pairing <<kind, media position, companion position>> *)
PairSet ==
    {<<"audio", m, transcript_for_audio[m]>> : m \in DOMAIN transcript_for_audio}
    \cup {<<"image", m, interpretation_for_image[m]>> : m \in DOMAIN interpretation_for_image}
    \cup {<<"sticker", m, description_for_sticker[m]>> : m \in DOMAIN description_for_sticker}

Positions == 1..Len(recent_messages)

(* Row c qualifies as companion of the kind-k media row m, consumption aside *)
Qualifies(k, m, c) ==
    /\ c \in Positions
    /\ m \in Positions
    /\ c \in {m - 1, m + 1}
    /\ IsKind(view, k, recent_messages[m])
    /\ recent_messages[c].sender = recent_messages[m].sender
    /\ ~IsKind(view, k, recent_messages[c])
    /\ recent_messages[m].timestamp - recent_messages[c].timestamp \in -120..120

RowsOf(S) == {r \in 1..Len(rows_display) : rows_display[r].idx \in S}

Placeholder(k) ==
    CASE k = "audio" -> "[Audio]" [] k = "image" -> "[Image]" [] k = "sticker" -> "[Sticker]"

(* The map the loop of kind k fills *)
MapOf(k) ==
    CASE k = "audio"   -> transcript_for_audio
      [] k = "image"   -> interpretation_for_image
      [] k = "sticker" -> description_for_sticker

(* The running loop records a pairing in this step *)
PairsInStep == skip_idx' # skip_idx

-----------------------------------------------------------------------------
(* C1: once the page is built, every recorded pairing has exactly one row, *)
(* the media row, and none for the companion; the media row shows the      *)
(* companion's decoded text (stated here for companions whose decoded text *)
(* is not empty, as in the claim's example "ok").                          *)
C1_PairShownOnce ==
    pc = "done" =>
        \A p \in PairSet :
            /\ Cardinality(RowsOf({p[2], p[3]})) = 1
            /\ RowsOf({p[3]}) = {}
            /\ \A r \in RowsOf({p[2]}) :
                 decoded_text(recent_messages[p[3]]) # ""
                    => rows_display[r].Message = decoded_text(recent_messages[p[3]])

(* C2: a pairing step never consumes an already consumed row, and the row  *)
(* that takes a companion in the step is itself unconsumed.                *)
C2_ConsumedInert ==
    [][(pc \in Kinds /\ PairsInStep) =>
          /\ i \notin skip_idx
          /\ \A c \in skip_idx' \ skip_idx : c \notin skip_idx
          /\ Cardinality(skip_idx' \ skip_idx) = 1]_vars

(* C3: every recorded pairing is with an adjacent row of the same sender,  *)
(* not of the media's own kind, at most 120 seconds away.                  *)
C3_PairingsQualify ==
    \A p \in PairSet : Qualifies(p[1], p[2], p[3])

C3_Witness ==
    \E p \in PairSet :
        /\ Qualifies(p[1], p[2], p[3])
        /\ recent_messages[p[2]].timestamp - recent_messages[p[3]].timestamp \in {120, -120}

(* The order in which the page processes media: kind by kind (audio, then  *)
(* image, then sticker), by list position within a kind.                   *)
KindRank(k) == CASE k = "audio" -> 1 [] k = "image" -> 2 [] k = "sticker" -> 3

ProcessedBefore(k1, m1, k2, m2) ==
    \/ KindRank(k1) < KindRank(k2)
    \/ (k1 = k2 /\ m1 < m2)

BothNeighboursQualify(k) ==
    /\ Qualifies(k, i, i - 1) /\ (i - 1) \notin skip_idx
    /\ Qualifies(k, i, i + 1) /\ (i + 1) \notin skip_idx

BeforeFirstStep ==
    pc \in Kinds =>
        /\ BothNeighboursQualify(pc) =>
              (skip_idx' = skip_idx \cup {i - 1} /\ MapOf(pc)'[i] = i - 1)
        /\ (i + 1) \in (skip_idx' \ skip_idx) =>
              ~(Qualifies(pc, i, i - 1) /\ (i - 1) \notin skip_idx)

-----------------------------------------------------------------------------
(* Vocabulary of the recovery properties *)

(* Later sends to the same user row *)
LaterSends(row) ==
    {r \in recovery_logs : r.user_id = row.user_id /\ r.sent_at > row.template_sent_at_utc}

(* The user's messages: sent by the user, stored under the user row or its waid *)
UserMessagesOf(row) ==
    {m \in messages : m.sender = "user" /\ (m.user_id = row.user_id \/ m.waid = row.waid)}

(* The user's messages after the send and before every later send *)
QualifyingReplies(row) ==
    {m \in UserMessagesOf(row) :
        /\ row.template_sent_at_utc < m.sent_at
        /\ \A r \in LaterSends(row) : m.sent_at < r.sent_at}

(* C6: a send's reply flag is true iff the user has a message after the    *)
(* send and before the user's next send; response_minutes is the distance  *)
(* in minutes to the earliest such message, and NULL exactly when the flag *)
(* is false.                                                               *)
C6_ReplyAttribution ==
    \A row \in get_recovery_ladder_events :
        /\ row.replied_before_next_template = (QualifyingReplies(row) # {})
        /\ (row.response_minutes = NULL) = ~row.replied_before_next_template
        /\ QualifyingReplies(row) # {} =>
              /\ \E m \in QualifyingReplies(row) :
                    row.response_minutes = m.sent_at - row.template_sent_at_utc
              /\ \A m \in QualifyingReplies(row) :
                    row.response_minutes <= m.sent_at - row.template_sent_at_utc

(* Two sends to one user row with a reply between them: the first is       *)
(* credited, the second is not.                                            *)
C6_Witness ==
    \E r1, r2 \in get_recovery_ladder_events :
        /\ r1.user_id = r2.user_id
        /\ r1.next_template_at_utc = r2.template_sent_at_utc
        /\ r1.replied_before_next_template
        /\ r1.response_minutes = 720
        /\ ~r2.replied_before_next_template
        /\ r2.response_minutes = NULL

(* C7: for the 12 h and the 24 h horizon, the activity flag of a send is   *)
(* true iff the user row has a completed activity after the send, at or    *)
(* before the horizon, and at or before every later send to that user row. *)
ActivityExpected(row, H) ==
    \E c \in user_activities_history :
        /\ c.user_id = row.user_id
        /\ row.template_sent_at_utc < c.completed_at
        /\ c.completed_at <= row.template_sent_at_utc + H
        /\ \A r \in LaterSends(row) : c.completed_at <= r.sent_at

C7_ActivityAttribution ==
    \A row \in get_recovery_ladder_events :
        /\ row.activity_12h = ActivityExpected(row, 12 * 60)
        /\ row.activity_24h = ActivityExpected(row, 24 * 60)

(* An activity inside the 24 h horizon that the next send cuts off *)
C7_Witness ==
    \E row \in get_recovery_ladder_events :
        /\ row.next_template_at_utc # NULL
        /\ ~row.activity_24h
        /\ \E c \in user_activities_history :
              /\ c.user_id = row.user_id
              /\ c.completed_at > row.next_template_at_utc
              /\ c.completed_at <= row.template_sent_at_utc + 24 * 60

-----------------------------------------------------------------------------
(* Vocabulary of the retention properties *)

(* The local dates on which a user row is active *)
ActiveDates(u) ==
    { (m.sent_at - 180) \div 1440 :
        m \in { x \in messages : x.sender = "user"
                                 /\ (x.user_id = u \/ x.waid = UserWaid(u)) } }

CohortUsers == {u \in UserIds : ActiveDates(u) # {}}

FirstActive(u) == CHOOSE d \in ActiveDates(u) : \A e \in ActiveDates(u) : d <= e

Monday(d) == CHOOSE w \in (d - 6)..d : w % 7 = 0

Members(cws) == {u \in CohortUsers : Monday(FirstActive(u)) = cws}

(* p tenths of a percent is 100 * n / size rounded to one decimal *)
IsPercentOf(p, n, size) ==
    /\ 2 * (p * size - 1000 * n) <= size
    /\ 2 * (1000 * n - p * size) <= size

(* Cohort users with an active date whose day offset from their first      *)
(* active date lies in lo..hi                                              *)
ActiveWithOffsetIn(cws, lo, hi) ==
    {u \in Members(cws) : \E d \in ActiveDates(u) : (d - FirstActive(u)) \in lo..hi}

Windows == {1, 2, 3, 7}

RollingValue(row, N) ==
    CASE N = 1 -> row.retention_1d
      [] N = 2 -> row.retention_2d
      [] N = 3 -> row.retention_3d
      [] N = 7 -> row.retention_7d

(* C8 as amended: a defined rolling retention of window N is the share of  *)
(* cohort users with an active date 1 to N days after their first active   *)
(* date (1-based cohort_day 2..N+1), as a percentage with one decimal.     *)
C8_RollingCountsDaysAfterFirst ==
    /\ \A row \in cohort_rolling_metrics : \A N \in Windows :
          RollingValue(row, N) # NULL =>
              IsPercentOf(RollingValue(row, N),
                          Cardinality(ActiveWithOffsetIn(row.cohort_week_start, 1, N)),
                          Cardinality(Members(row.cohort_week_start)))
    /\ \A row \in cohort_7d_retention :
          row.retention_7d # NULL =>
              IsPercentOf(row.retention_7d,
                          Cardinality(ActiveWithOffsetIn(row.cohort_week_start, 1, 7)),
                          Cardinality(Members(row.cohort_week_start)))

(* A user active on D, D+1 and D+7 only, in a cohort at least 7 days old:  *)
(* 100.0 in both queries.                                                  *)
C8_Witness ==
    \E u \in CohortUsers :
        /\ {d - FirstActive(u) : d \in ActiveDates(u)} = {0, 1, 7}
        /\ \E row \in cohort_rolling_metrics :
              /\ row.cohort_week_start = Monday(FirstActive(u))
              /\ row.retention_7d = 1000
              /\ row.retention_1d = 1000
        /\ \E row \in cohort_7d_retention :
              /\ row.cohort_week_start = Monday(FirstActive(u))
              /\ row.retention_7d = 1000

(* C8 as stated: a defined rolling retention of window N is the share of   *)
(* cohort users with an active date whose 1-based cohort_day (offset + 1)  *)
(* lies in 1..N.                                                           *)
C8_RollingCountsCohortDays1toN ==
    /\ \A row \in cohort_rolling_metrics : \A N \in Windows :
          RollingValue(row, N) # NULL =>
              IsPercentOf(RollingValue(row, N),
                          Cardinality(ActiveWithOffsetIn(row.cohort_week_start, 0, N - 1)),
                          Cardinality(Members(row.cohort_week_start)))
    /\ \A row \in cohort_7d_retention :
          row.retention_7d # NULL =>
              IsPercentOf(row.retention_7d,
                          Cardinality(ActiveWithOffsetIn(row.cohort_week_start, 0, 6)),
                          Cardinality(Members(row.cohort_week_start)))

(* C9: a rolling retention of window N is NULL iff the cohort is younger   *)
(* than N days (current date - cohort_week_start < N), in both queries.    *)
C9_AgeGuard ==
    /\ \A row \in cohort_rolling_metrics : \A N \in Windows :
          (RollingValue(row, N) = NULL) = (CURRENT_DATE - row.cohort_week_start < N)
    /\ \A row \in cohort_7d_retention :
          (row.retention_7d = NULL) = (CURRENT_DATE - row.cohort_week_start < 7)

(* A cohort of age 3, whose 3-day value is defined and whose 7-day value   *)
(* is not, next to an older cohort that has a 7-day value.                 *)
C9_Witness ==
    /\ \E row \in cohort_rolling_metrics :
          /\ CURRENT_DATE - row.cohort_week_start = 3
          /\ row.retention_3d # NULL
          /\ row.retention_7d = NULL
    /\ \E row \in cohort_7d_retention :
          /\ CURRENT_DATE - row.cohort_week_start = 10
          /\ row.retention_7d # NULL

(* C10: every row of the daily retention table carries 100 * (cohort users *)
(* active on a date with offset + 1 = cohort_day) / cohort_size rounded to *)
(* one decimal, and every cohort day on which a cohort user was active has *)
(* a row.                                                                  *)
C10_DailyRetention ==
    /\ \A row \in cohort_retention_weekly :
          /\ row.cohort_size = Cardinality(Members(row.cohort_week_start))
          /\ row.active_users =
                Cardinality(ActiveWithOffsetIn(row.cohort_week_start,
                                               row.cohort_day - 1, row.cohort_day - 1))
          /\ IsPercentOf(row.retention_pct, row.active_users, row.cohort_size)
    /\ \A u \in CohortUsers : \A d \in ActiveDates(u) :
          \E row \in cohort_retention_weekly :
              /\ row.cohort_week_start = Monday(FirstActive(u))
              /\ row.cohort_day = (d - FirstActive(u)) + 1
    /\ \A r1, r2 \in cohort_retention_weekly :
          (r1.cohort_week_start = r2.cohort_week_start /\ r1.cohort_day = r2.cohort_day)
              => r1 = r2

(* A user active on D, D+1 and D+7: rows for cohort days 1, 2 and 8 only   *)
C10_Witness ==
    \E u \in CohortUsers :
        /\ {d - FirstActive(u) : d \in ActiveDates(u)} = {0, 1, 7}
        /\ {row.cohort_day : row \in cohort_retention_weekly} = {1, 2, 8}

-----------------------------------------------------------------------------
(* SUM(cohort_size) over the rows of cohort_sizes *)
RECURSIVE SumCohortSizes(_)
SumCohortSizes(rows) ==
    IF rows = {} THEN 0
    ELSE LET r == CHOOSE x \in rows : TRUE
         IN  r.cohort_size + SumCohortSizes(rows \ {r})

(* C11: cohort bucketing partitions the product users that have a user-sent *)
(* message: each has exactly one row of user_with_cohort_week, whose        *)
(* cohort_week_start is the Monday of the week of the first active local    *)
(* date (0 <= first_active_date - cohort_week_start <= 6); cohort_sizes has *)
(* one row per cohort, cohort_size is the number of users assigned to the   *)
(* cohort, and the sizes sum to the number of such users.                   *)
C11_CohortPartition ==
    LET uwc == user_with_cohort_week(user_first_last(user_messages))
        cs  == cohort_sizes(uwc)
    IN  /\ \A u \in CohortUsers : Cardinality({r \in uwc : r.user_id = u}) = 1
        /\ \A r \in uwc :
              /\ r.user_id \in CohortUsers
              /\ r.first_active_date = FirstActive(r.user_id)
              /\ r.cohort_week_start = Monday(r.first_active_date)
              /\ r.first_active_date - r.cohort_week_start \in 0..6
        /\ \A c \in cs :
              /\ c.cohort_size = Cardinality(Members(c.cohort_week_start))
              /\ c.cohort_size >= 1
        /\ \A c1, c2 \in cs : c1.cohort_week_start = c2.cohort_week_start => c1 = c2
        /\ SumCohortSizes(cs) = Cardinality(CohortUsers)

(* Two cohorts of sizes 2 and 1; one user's first message was stored on a  *)
(* Monday (UTC) at 01:00 and so falls on the Sunday of the week before;    *)
(* another user was active again in a later week than the first one.       *)
C11_Witness ==
    LET cs == cohort_sizes(user_with_cohort_week(user_first_last(user_messages)))
    IN  /\ {c.cohort_size : c \in cs} = {1, 2}
        /\ Cardinality(cs) = 2
        /\ \E u \in CohortUsers : FirstActive(u) = 6
        /\ \E u \in CohortUsers : \E d \in ActiveDates(u) : Monday(d) # Monday(FirstActive(u))

-----------------------------------------------------------------------------
(* The cohorts whose figures for block k are displayed: in the chart       *)
(* average of block k and in the tables of block k                         *)
CohortsShownForBlock(k) ==
    UNION {r.cohorts : r \in {x \in chart_rows : x.window = k}}
    \cup (IF k = 1 THEN {r.cohort_week_start : r \in ac_w1} ELSE {})
    \cup (IF k = 2 THEN {r.cohort_week_start : r \in ac_w2 \cup ac_w1w2} ELSE {})

-----------------------------------------------------------------------------
(* Vocabulary of the rendering properties *)

FullTextDecoders == {"extract_message_text", "extract_msg_text"}

RenderedBy(ds) == phase = "rendered" /\ decoder \in ds

(* The view whose classification predicates the row's decoder goes with *)
ViewOf(d) == IF d = "extract_message_text" THEN "tab1" ELSE "tab2"

(* The media rule of kind k matches the rendered row *)
RuleMatches(k) == IsKind(ViewOf(decoder), k, row_of(msg_type_val, raw_msg))

(* The stored type, or the dash if it is absent *)
StoredOrDash == IF msg_type_val # "" THEN msg_type_val ELSE "-"

(* The label of the first rule that matches, the rules taken in `order` *)
RECURSIVE FirstMatch(_, _)
FirstMatch(order, n) ==
    IF n > Len(order) THEN StoredOrDash
    ELSE IF order[n] = "template"
         THEN (IF is_template(raw_msg) THEN "template" ELSE FirstMatch(order, n + 1))
    ELSE IF RuleMatches(order[n])
         THEN (CASE order[n] = "audio" -> "icon:audio"
                 [] order[n] = "image" -> "icon:image"
                 [] order[n] = "sticker" -> "sticker")
    ELSE FirstMatch(order, n + 1)

(* The payload's JSON text is x *)
PayloadIs(x) == raw_msg = PyStr(lit(x))

(* C13 as amended: the type label of a rendered row is chosen              *)
(* first-match-wins in the order template, audio, sticker, image, then the *)
(* stored type (or the dash if absent); a payload with a top-level         *)
(* notification key is labelled template and the payload {"text": "hi"} is *)
(* not.                                                                    *)
C13_LabelAudioBeforeStickerAndImage ==
    RenderedBy(FullTextDecoders) =>
        /\ type_label = FirstMatch(<<"template", "audio", "sticker", "image">>, 1)
        /\ PayloadIs("{\"notification\":{\"name\":\"x\"}}") => type_label = "template"
        /\ PayloadIs("{\"text\":\"hi\"}") => type_label # "template"

(* A row of stored type image whose payload carries an audio MIME type:    *)
(* the audio rule and the image rule both match, the label is the audio's  *)
C13_Witness ==
    /\ RenderedBy(FullTextDecoders)
    /\ ~is_template(raw_msg)
    /\ RuleMatches("audio")
    /\ RuleMatches("image")
    /\ type_label = "icon:audio"

(* C13 as stated: the order is template, sticker, image, audio *)
C13_LabelStickerImageBeforeAudio ==
    RenderedBy(FullTextDecoders) =>
        /\ type_label = FirstMatch(<<"template", "sticker", "image", "audio">>, 1)
        /\ PayloadIs("{\"notification\":{\"name\":\"x\"}}") => type_label = "template"
        /\ PayloadIs("{\"text\":\"hi\"}") => type_label # "template"

-----------------------------------------------------------------------------
(* C14: for every text t, the double-encoded payload (a JSON string whose   *)
(* value is the JSON text of {"text": t}) is displayed as t by the         *)
(* full-text decoders, and so is the single-encoded payload {"text": t}.   *)
C14_DoubleEncodedText ==
    RenderedBy(FullTextDecoders) =>
        \A t \in Texts_t :
            raw_msg \in {single_encoded(t), double_encoded(t)} => message_text = PyStr(lit(t))

-----------------------------------------------------------------------------
(* The value of the rendered payload once parsed, if it is a mapping *)
Parsed == parse_json(strip(raw_msg.s))

IsMapping == ~isna(raw_msg) /\ is_dict(Parsed)

ContainerKeys5 ==
    {lit("interactive"), lit("postback"), lit("template"), lit("flows"), lit("quickReply")}

(* What the priority key at place n yields: its value if that is a         *)
(* (non-empty) string, otherwise the text found by recursing into it       *)
KeyYield(n) ==
    LET val == get_key(Parsed, text_keys[n])
    IN  IF is_str(val) THEN (IF val.s # <<>> THEN val ELSE PyNone)
        ELSE find_text(decoder, val, 1)

PresentKeyPlaces == {n \in 1..Len(text_keys) : has_key(Parsed, text_keys[n])}

(* C15: for a mapping (with none of the container keys), the text is taken *)
(* from the priority keys examined in the order text, body, title,         *)
(* message, content, caption, label, description, value: the result is     *)
(* what the first present key yields (its value if that is a string,       *)
(* otherwise the text found by recursing into its value), and a later key  *)
(* is used only when every earlier one yields nothing.                     *)
C15_KeyPriority ==
    (RenderedBy(FullTextDecoders) /\ IsMapping
        /\ \A k \in ContainerKeys5 : ~has_key(Parsed, k)) =>
        \A n \in PresentKeyPlaces :
            (KeyYield(n) # PyNone /\ \A m \in PresentKeyPlaces : m < n => KeyYield(m) = PyNone)
                => message_text = KeyYield(n)

-----------------------------------------------------------------------------
(* The texts found inside the values of the container keys of the payload *)
NestedTexts ==
    { find_text(decoder, get_key(Parsed, k), 0) :
        k \in {x \in ContainerKeys5 : has_key(Parsed, x)
                                      /\ find_text(decoder, get_key(Parsed, x), 0) # PyNone} }

(* The text as decoder d returns it: the snippet decoder strips it and     *)
(* cuts it to its maximal length                                           *)
Shown(d, v) ==
    IF d = "_extract_message_text_snippet"
    THEN PyStr(truncate(strip(v.s), SnippetMaxLen))
    ELSE v

(* C16: if the decoded top-level mapping has one of the keys interactive,  *)
(* postback, template, flows, quickReply and text can be extracted from    *)
(* inside that key's value, that text is the result, in preference to text *)
(* found elsewhere in the mapping; in each of the three decoders.          *)
C16_NestedContainerFirst ==
    (RenderedBy(Decoders) /\ IsMapping /\ NestedTexts # {}) =>
        \E v \in NestedTexts : message_text = Shown(decoder, v)

-----------------------------------------------------------------------------
(* The payload is a string that json.loads does not accept *)
NotJson == ~isna(raw_msg) /\ ~json_loads(raw_msg.s).ok

Blank == " "

HasOuterBlank == raw_msg.s # <<>> /\ (Head(raw_msg.s) = Blank \/ raw_msg.s[Len(raw_msg.s)] = Blank)

(* The characters of s without the blanks at its two ends *)
Trimmed(s) ==
    LET inner == {n \in 1..Len(s) : s[n] # Blank}
    IN  IF inner = {} THEN <<>>
        ELSE SubSeq(s, CHOOSE a \in inner : \A b \in inner : a <= b,
                       CHOOSE a \in inner : \A b \in inner : a >= b)

-----------------------------------------------------------------------------
(* The snippet decoder's cut: the first SnippetMaxLen characters and an    *)
(* ellipsis                                                                *)
Cut(d, s) ==
    IF d = "_extract_message_text_snippet" /\ Len(s) > SnippetMaxLen
    THEN Append(SubSeq(s, 1, SnippetMaxLen), "...")
    ELSE s

-----------------------------------------------------------------------------
(* Vocabulary of the timezone properties *)
Resolved == phase = "resolved"

SignValue(sign) == IF sign = "-" THEN -1 ELSE 1

(* The offset an explicit-offset string denotes: sign x (60 h + mm) *)
DenotedOffset(sign, hh, mm) ==
    SignValue(sign) * (60 * int_of(lit(hh)) + (IF mm = "" THEN 0 ELSE int_of(lit(mm))))

(* The hour the offset pattern finds in the argument is 24 or more *)
HourOutOfRange ==
    /\ is_str(tz_str)
    /\ strip(tz_str.s) \notin known_zones
    /\ re_search(strip(tz_str.s)).found
    /\ int_of(re_search(strip(tz_str.s)).hh) >= 24

(* The argument is neither a zone name nor holds a digit *)
NoOffsetPattern ==
    /\ is_str(tz_str)
    /\ strip(tz_str.s) \notin known_zones
    /\ \A p \in 1..Len(tz_str.s) : tz_str.s[p] \notin Digits

(* C19: for every explicit-offset string with sign s, hour h and optional  *)
(* minutes mm (UTC-3, GMT-3, UTC+5:30, -3, -03:00), the resolved zone is   *)
(* the fixed offset of s x (60 h + mm) minutes from UTC; UTC-3:30 is       *)
(* -03:30.                                                                 *)
C19_FixedOffsetArithmetic ==
    Resolved =>
        \A prefix \in OffsetPrefixes, sign \in OffsetSigns,
           hh \in OffsetHours, mm \in OffsetMinutes :
            tz_str = PyStr(offset_string(prefix, sign, hh, mm)) =>
                \/ user_tz = FixedOffset(DenotedOffset(sign, hh, mm))
                \/ user_tz.k = "zone" /\ DenotedOffset(sign, hh, mm) = 0

(* C20: for every argument the resolver returns a zone or None and never   *)
(* raises; an argument that is no zone name and holds no offset pattern    *)
(* gives None, and so does one whose hour is 24 or more.                   *)
C20_ResolverTotal ==
    Resolved =>
        /\ user_tz.k \in {"zone", "fixed", "none"}
        /\ NoOffsetPattern => user_tz = NoZone
        /\ HourOutOfRange => user_tz = NoZone

(* The leading sign, the UTC/GMT marker or the matched sign disagree *)
SignsDisagree ==
    /\ is_str(tz_str)
    /\ \E p, q \in 1..Len(tz_str.s) : tz_str.s[p] = "+" /\ tz_str.s[q] = "-"

(* C22: for every argument, _parse_timezone, parse_timezone and parse_tz   *)
(* return the same result (the same zone, offset, None or exception),      *)
(* also without any sign marker and with disagreeing markers.              *)
C22_CopiesAgree ==
    Resolved =>
        /\ user_tz = _parse_timezone(tz_str)
        /\ user_tz = parse_timezone(tz_str)
        /\ user_tz = parse_tz(tz_str)

(* A per-view copy has resolved a string whose markers disagree to a       *)
(* fixed offset                                                            *)
C22_Witness ==
    /\ Resolved
    /\ resolver = "parse_tz"
    /\ SignsDisagree
    /\ user_tz.k = "fixed"
    /\ user_tz.off # 0

-----------------------------------------------------------------------------
(* Vocabulary of the formatter properties *)

(* A formatter has rendered a timestamp that is present *)
Formatted == phase = "resolved" /\ formatter \in Formatters

(* The timezone is absent or could not be resolved *)
ZoneUnresolved == user_tz.k \in {"none", "raised"}

(* C21: every timestamp formatter, when the user's timezone is absent or   *)
(* cannot be resolved, renders the UTC value followed by " UTC" and does   *)
(* not raise; a time without the suffix is shown only when a zone was      *)
(* resolved.                                                               *)
C21_NullZoneRendering ==
    Formatted =>
        /\ ZoneUnresolved => time_shown = Strftime(NoZone, TRUE)
        /\ ~time_shown.utc_suffix => (~ZoneUnresolved /\ time_shown = Strftime(user_tz, FALSE))

-----------------------------------------------------------------------------
(* The kinds of media row m *)
KindsOf(m) == {k \in Kinds : IsKind(view, k, recent_messages[m])}

(* No candidate qualified for media row m: no loop recorded a pairing for it *)
NoCandidateQualified(m) ==
    /\ KindsOf(m) # {}
    /\ \A k \in Kinds : m \notin DOMAIN MapOf(k)

(* C25: a media message for which no candidate qualified appears in the    *)
(* output with the placeholder of its kind as display text, and consumes   *)
(* nothing.                                                                *)
C25_PlaceholderFallback ==
    pc = "done" =>
        \A m \in Positions :
            NoCandidateQualified(m) =>
                /\ Cardinality(RowsOf({m})) = 1
                /\ \A r \in RowsOf({m}) :
                      rows_display[r].Message \in {Placeholder(k) : k \in KindsOf(m)}
                /\ \A p \in PairSet : p[2] # m

(* The displayed rows that show the decoded text of row c as companion *)
ShownBy(c) ==
    {p \in PairSet :
        /\ p[3] = c
        /\ \E r \in RowsOf({p[2]}) :
              \/ rows_display[r].Message = decoded_text(recent_messages[c])
              \/ decoded_text(recent_messages[c]) = ""}

(* C28: once the page is built, every input message has its own row or is  *)
(* the companion whose decoded text is the display text of exactly one     *)
(* media row that is itself in the output.                                 *)
C28_NoContentLost ==
    pc = "done" =>
        \A m \in Positions :
            \/ Cardinality(RowsOf({m})) = 1
            \/ RowsOf({m}) = {} /\ Cardinality(ShownBy(m)) = 1

-----------------------------------------------------------------------------
(* The real-world users (waids) behind a set of user rows *)
WaidsOf(rows) == {UserWaid(u) : u \in rows}

(* C29: a waid that has several user rows is counted at most once in       *)
(* cohort_size and at most once in each retention numerator of the         *)
(* retention query.                                                        *)
C29_OnePersonOneMember ==
    \A row \in cohort_retention_weekly :
        /\ row.cohort_size <= Cardinality(WaidsOf(Members(row.cohort_week_start)))
        /\ row.active_users <=
              Cardinality(WaidsOf(ActiveWithOffsetIn(row.cohort_week_start,
                                                    row.cohort_day - 1, row.cohort_day - 1)))

-----------------------------------------------------------------------------
(* The sends of the result for which message m is a qualifying reply *)
SendsCrediting(m) == {row \in get_recovery_ladder_events : IsReply(row, m)}

(* C30: over all sends of the result, a user message is a qualifying reply *)
(* of at most one send, also when its waid is shared by several user rows  *)
(* that each received sends.                                               *)
C30_CreditedOnce ==
    \A m \in messages : Cardinality(SendsCrediting(m)) <= 1

-----------------------------------------------------------------------------
(* Vocabulary of the reply-pending property *)

NonInternalWaids == {"wa", "wb"}

Listed(rows, w) == \E r \in rows : r.waid = w

(* The most recent user-sent messages of waid w among the messages S *)
MostRecentUserMessages(S, w) ==
    {m \in S : /\ m.sender = "user" /\ m.waid = w
               /\ \A x \in S : (x.sender = "user" /\ x.waid = w) => x.sent_at <= m.sent_at}

(* A companion message to m's waid or to m's user was sent after m *)
Answered(S, m) ==
    \E c \in S :
        /\ c.sender = "companion"
        /\ c.sent_at > m.sent_at
        /\ (c.waid = m.waid \/ (m.user_id # NULL /\ c.user_id = m.user_id))

(* m is more than one hour old at instant t and unanswered *)
Waiting(S, t, m) == t - m.sent_at > 60 /\ ~Answered(S, m)

(* rows lists exactly the non-internal waids whose most recent user        *)
(* message is waiting, for the messages S at instant t                     *)
IsPendingList(rows, S, t) ==
    \A w \in NonInternalWaids :
        /\ Listed(rows, w) => \E m \in MostRecentUserMessages(S, w) : Waiting(S, t, m)
        /\ (/\ MostRecentUserMessages(S, w) # {}
            /\ \A m \in MostRecentUserMessages(S, w) : Waiting(S, t, m)) => Listed(rows, w)

MessagesReadAt(t) ==
    {{m \in messages : m.sent_at < t} \cup X :
        X \in SUBSET {m \in messages : m.sent_at = t}}

-----------------------------------------------------------------------------
(* Vocabulary of the translation properties *)

(* The remote service has been called for text in view v *)
Attempted(v, text) == remote_calls[<<v, text>>] >= 1

(* The call of this step: its view and text are in translate_arg' *)
TranslateAgainStep ==
    LET v    == translate_arg'[1]
        text == translate_arg'[2]
    IN  /\ \A c \in Views \X TranslateTexts : remote_calls'[c] <= 1
        /\ remote_outcome' = "raised" =>
              /\ translated' = Str(text)
              /\ in_cache(translations'[v].cache, text)
              /\ cache_get(translations'[v].cache, text) = Str(text)
        /\ Attempted(v, text) =>
              /\ remote_calls' = remote_calls
              /\ translations' = translations
              /\ in_cache(translations[v].cache, text)
              /\ translated' = cache_get(translations[v].cache, text)

(* C23: in a session and a view, once the remote call for a non-empty text *)
(* was made, whether it succeeded or raised, every later                   *)
(* translate_to_english of the text returns the cached value without       *)
(* another remote call; after a failure the cached and returned value is   *)
(* the text itself; the remote service is called at most once per text.    *)
C23_CacheSuppressesRetries == [][TranslateAgainStep]_vars

(* A text whose remote call raised is asked for again and answered from    *)
(* the cache with the text itself.                                         *)
C23_Witness ==
    /\ remote_outcome = "cached"
    /\ translate_arg # <<>>
    /\ Attempted(translate_arg[1], translate_arg[2])
    /\ translated = Str(translate_arg[2])
    /\ text_len(translate_arg[2]) > TranslateLimit

(* C24: translate_to_english never raises, and whenever no translation can *)
(* be produced, because the remote call raises or the library is           *)
(* unavailable, it returns the original text unchanged.                    *)
C24_FailurePassThrough ==
    remote_outcome \in {"raised", "unavailable"} => translated = Str(translate_arg[2])

-----------------------------------------------------------------------------
(* C26: run_query never raises and returns an empty table on any failure,  *)
(* and after a failed run_query, whether no connection could be            *)
(* established or the query raised, the failed cached connection result is *)
(* discarded, so that the next call makes a fresh connection attempt.      *)
C26_DegradesAndRecovers ==
    query_outcome \in {"no connection", "query failed"} =>
        /\ df.rows = "empty"
        /\ cache_resource = "empty"

=============================================================================
